---- MODULE Spec2Model ----
(***************************************************************************)
(* Model of macctl's telemetry core: the bounded persisted snapshot        *)
(* history (internal/power/history.go and its disk twin), the relative     *)
(* time filter, and the event de-duplicator used by the events command.    *)
(*                                                                         *)
(* Time is an integer count of ticks.  A history file is a sequence of     *)
(* lexical tokens of the JSON text that json.MarshalIndent writes: one     *)
(* token for each bracket and one for each encoded snapshot object.        *)
(***************************************************************************)
EXTENDS Integers, Sequences, FiniteSets, TLC

\* ------------------------------------------------------------------ bounds
\* MaxHistoryEntries of history.go
MaxHistoryEntries == 500
\* the wall clock runs from 0 to MaxClock
MaxClock == 1
\* measured payloads of a snapshot are 1..MaxValue
MaxValue == 2
\* number of RecordSnapshot / SaveHistory / LoadHistory calls in one run
MaxCalls == 2
\* SaveHistory is called with every list of up to MaxShort entries ...
MaxShort == 2
\* ... and with long lists of MaxHistoryEntries up to
\* MaxHistoryEntries + Excess entries
Excess == 1

\* FilterHistory is applied to lists of up to MaxLen snapshots ...
MaxLen == 3
\* ... stamped 0..MaxTs, at a clock reading in 0..MaxTs ...
MaxTs == 3
\* ... with a window of -1..MaxSince ticks
MaxSince == 3

\* the events command is run on up to MaxEvents classified events ...
MaxEvents == 3
\* ... stamped at 0, 10, ... 10 * MaxTick seconds
MaxTick == 6
\* the length of the short --last values
MaxStr == 4
\* how far past the largest duration that fits the numerals go
Over == 1
\* the most phrases in the message of a log line
MaxWords == 2
\* the most lines of a log of several lines
MaxLines == 2
\* the most actions of a preset other than the built-in ones
MaxActions == 2

\* the most status fetches of the dashboard that run at one time
MaxFetches == 2

\* ------------------------------------------------------------ the universe
Procs == {"p1", "p2"}
Stores == {"power", "disk"}
Values == 1..MaxValue

\* ------------------------------------------------- snapshots and JSON text
\* Snapshot / HealthSnapshot: a timestamp and the measured payload.
Snapshot(ts, v) == [Timestamp |-> ts, Value |-> v]

NoSnapshot == Snapshot(0, 0)

\* a punctuation (or junk) token of the file text
Tok(k) == [k |-> k, ts |-> 0, v |-> 0]

\* json encoding of one snapshot object
EncodeSnapshot(s) == [k |-> "obj", ts |-> s.Timestamp, v |-> s.Value]

\* json decoding of one snapshot object
DecodeSnapshot(t) == Snapshot(t.ts, t.v)

\* variant: the array is written newest first
MarshalIndentReversed(snapshots, isNil) ==
    IF isNil /\ snapshots = << >>
    THEN << Tok("null") >>
    ELSE << Tok("[") >>
         \o [i \in 1..Len(snapshots) |-> EncodeSnapshot(snapshots[Len(snapshots) + 1 - i])]
         \o << Tok("]") >>

\* json.MarshalIndent of a slice: a nil slice is written as null, any other
\* slice as a bracketed array of its objects in slice order.
MarshalIndent(snapshots, isNil) ==
    IF isNil /\ snapshots = << >>
    THEN << Tok("null") >>
    ELSE << Tok("[") >> \o [i \in 1..Len(snapshots) |-> EncodeSnapshot(snapshots[i])]
                        \o << Tok("]") >>

\* the text is one well-formed array of snapshot objects
IsArrayText(data) ==
    /\ Len(data) >= 2
    /\ data[1] = Tok("[")
    /\ data[Len(data)] = Tok("]")
    /\ \A i \in 2..(Len(data) - 1) : data[i].k = "obj"

\* json.Unmarshal into []Snapshot: null leaves the slice nil, an array yields
\* its objects in text order, anything else is a syntax or type error.
Unmarshal(data) ==
    IF data = << Tok("null") >>
    THEN [err |-> "", snapshots |-> << >>]
    ELSE IF IsArrayText(data)
    THEN [err |-> "", snapshots |-> [i \in 1..(Len(data) - 2) |-> DecodeSnapshot(data[i + 1])]]
    ELSE [err |-> "parse", snapshots |-> << >>]

\* --------------------------------------------------------- the file system
\* historyFileName of each package
historyFileName(st) == IF st = "power" THEN "power-history.json" ELSE "disk-history.json"

\* variant: both packages write the same file
historyPathShared(st) == historyFileName("power")

\* historyPath: both packages join the same directory with their file name
historyPath(st) == historyFileName(st)

Paths == {historyPath(st) : st \in Stores}

AbsentFile == [exists |-> FALSE, bytes |-> << >>]

FileOf(data) == [exists |-> TRUE, bytes |-> data]

\* -------------------------------------------------------- history.go proper
\* variant: a missing file is reported like any other read error
LoadHistoryAbsentFails(f) ==
    IF ~f.exists
    THEN [err |-> "read", snapshots |-> << >>]
    ELSE Unmarshal(f.bytes)

\* LoadHistory: absent file => (nil, nil); unparsable => (nil, error)
LoadHistory(f) ==
    IF ~f.exists
    THEN [err |-> "", snapshots |-> << >>]
    ELSE Unmarshal(f.bytes)

\* variant: the slice keeps the head instead of the tail
TrimKeepsOldest(snapshots) ==
    IF Len(snapshots) > MaxHistoryEntries
    THEN SubSeq(snapshots, 1, MaxHistoryEntries)
    ELSE snapshots

\* the trimming at the head of SaveHistory
Trim(snapshots) ==
    IF Len(snapshots) > MaxHistoryEntries
    THEN SubSeq(snapshots, Len(snapshots) - MaxHistoryEntries + 1, Len(snapshots))
    ELSE snapshots

\* os.WriteFile opens with O_TRUNC: the old content is gone before the new
\* content is written.
OpenTrunc(f) == FileOf(<< >>)

\* the write that follows the open: it starts at offset 0 of whatever the
\* file holds by then and replaces as much of it as the new text covers.
WriteData(f, text) == FileOf(text \o SubSeq(f.bytes, Len(text) + 1, Len(f.bytes)))

VARIABLES
    fs,        \* path -> file content
    now,       \* wall clock
    pc,        \* per process: position inside the running call
    op,        \* per process: the call it runs ("record", "save", "load")
    store,     \* per process: the package (store) the call belongs to
    snap,      \* per process: the snapshot captured by RecordSnapshot
    existing,  \* per process: what RecordSnapshot loaded
    toSave,    \* per process: the slice handed to SaveHistory
    nilArg,    \* per process: that slice is nil
    data,      \* per process: marshalled text about to be written
    err,       \* per process: the err variable of RecordSnapshot
    ret,       \* per process: what the last finished call returned
    calls,     \* number of calls started
    inp,       \* input of the pure function under study
    out,       \* its result
    step       \* "start" until the function has been applied, then "done"

histVars == << fs, now, pc, op, store, snap, existing, toSave, nilArg, data, err, ret, calls >>

pureVars == << inp, out, step >>

vars == << fs, now, pc, op, store, snap, existing, toSave, nilArg, data, err, ret, calls,
           inp, out, step >>

NoRet == [status |-> "none", cause |-> "", snap |-> << >>, snapshots |-> << >>]

OkRet(sn, snaps) == [status |-> "ok", cause |-> "", snap |-> sn, snapshots |-> snaps]

ErrRet(cause) == [status |-> "err", cause |-> cause, snap |-> << >>, snapshots |-> << >>]

\* a long history: n snapshots whose payloads cycle through the values
LongHistory(n) == [i \in 1..n |-> Snapshot(0, (i % MaxValue) + 1)]

\* a history that already holds MaxHistoryEntries snapshots
FullHistory == LongHistory(MaxHistoryEntries)

\* contents a history file can have when the program starts
InitialFiles == {AbsentFile, FileOf(MarshalIndent(<< Snapshot(0, 1) >>, FALSE))}

\* contents LoadHistory cannot parse: no array at all, and an array cut short
CorruptFiles ==
    { FileOf(<< Tok("garbage") >>),
      FileOf(<< Tok("["), EncodeSnapshot(Snapshot(0, 1)) >>) }

InitialDiskFiles == {FileOf(MarshalIndent(<< Snapshot(0, MaxValue) >>, FALSE))}

\* the pure functions are not under study
PureIdle ==
    /\ inp = << >>
    /\ out = << >>
    /\ step = "none"

\* the store's variables before any call; packages are the packages whose
\* functions the processes may start in
HistInit(powerFiles, diskFiles, packages) ==
    /\ \E a \in powerFiles, b \in diskFiles :
          fs = [f \in Paths |-> IF f = historyPath("power") THEN a ELSE b]
    /\ \E st \in packages : store = [p \in Procs |-> st]
    /\ pc = [p \in Procs |-> "idle"]
    /\ op = [p \in Procs |-> "none"]
    /\ snap = [p \in Procs |-> NoSnapshot]
    /\ existing = [p \in Procs |-> << >>]
    /\ toSave = [p \in Procs |-> << >>]
    /\ nilArg = [p \in Procs |-> FALSE]
    /\ data = [p \in Procs |-> << >>]
    /\ err = [p \in Procs |-> ""]
    /\ ret = [p \in Procs |-> NoRet]
    /\ calls = 0

Init ==
    /\ PureIdle
    /\ now = 0
    /\ HistInit(InitialFiles, InitialDiskFiles, {"power"})

\* lists SaveHistory can be handed: every short list over two distinguishable
\* snapshots, and long lists around the limit
SaveDomain == {Snapshot(0, 1), Snapshot(1, 2)}

SaveInputs ==
    (UNION {[1..n -> SaveDomain] : n \in 0..MaxShort})
    \cup {LongHistory(n) : n \in MaxHistoryEntries..(MaxHistoryEntries + Excess)}

Idle(p) == pc[p] = "idle" /\ calls < MaxCalls

\* the locals of a finished call are gone
NoLocals(f, p) == [f EXCEPT ![p] = << >>]

\* the clock advances
Tick ==
    /\ now < MaxClock
    /\ now' = now + 1
    /\ UNCHANGED << fs, pc, op, store, snap, existing, toSave, nilArg, data, ret, calls, err, pureVars >>

\* variant: the capture error is not checked and the call goes on
RecordCaptureFailIgnored(p, st) ==
    /\ Idle(p)
    /\ op' = [op EXCEPT ![p] = "record"]
    /\ store' = [store EXCEPT ![p] = st]
    /\ err' = [err EXCEPT ![p] = "capture"]
    /\ snap' = [snap EXCEPT ![p] = NoSnapshot]
    /\ ret' = [ret EXCEPT ![p] = NoRet]
    /\ pc' = [pc EXCEPT ![p] = "load"]
    /\ calls' = calls + 1
    /\ UNCHANGED << fs, now, existing, toSave, nilArg, data, pureVars >>

\* RecordSnapshot, capture fails: the error is returned at once
RecordCaptureFail(p, st) ==
    /\ Idle(p)
    /\ op' = [op EXCEPT ![p] = "record"]
    /\ store' = [store EXCEPT ![p] = st]
    /\ err' = [err EXCEPT ![p] = "capture"]
    /\ ret' = [ret EXCEPT ![p] = ErrRet("capture")]
    /\ calls' = calls + 1
    /\ UNCHANGED << fs, now, pc, snap, existing, toSave, nilArg, data, pureVars >>

\* RecordSnapshot, capture succeeds: snap is stamped with the clock
RecordCapture(p, st, v) ==
    /\ Idle(p)
    /\ op' = [op EXCEPT ![p] = "record"]
    /\ store' = [store EXCEPT ![p] = st]
    /\ snap' = [snap EXCEPT ![p] = Snapshot(now, v)]
    /\ ret' = [ret EXCEPT ![p] = NoRet]
    /\ err' = [err EXCEPT ![p] = ""]
    /\ pc' = [pc EXCEPT ![p] = "load"]
    /\ calls' = calls + 1
    /\ UNCHANGED << fs, now, existing, toSave, nilArg, data, pureVars >>

\* variant: the new snapshot is put in front of the loaded ones
RecordLoadPrepends(p) ==
    /\ pc[p] = "load"
    /\ LET r == LoadHistory(fs[historyPath(store[p])])
           ex == IF r.err # "" THEN << >> ELSE r.snapshots
       IN /\ err' = [err EXCEPT ![p] = r.err]
          /\ existing' = [existing EXCEPT ![p] = ex]
          /\ toSave' = [toSave EXCEPT ![p] = << snap[p] >> \o ex]
    /\ nilArg' = [nilArg EXCEPT ![p] = FALSE]
    /\ pc' = [pc EXCEPT ![p] = "save"]
    /\ UNCHANGED << fs, now, op, store, snap, data, ret, calls, pureVars >>

\* RecordSnapshot: existing, err := LoadHistory(); a load error means start
\* fresh; then existing = append(existing, *snap)
RecordLoad(p) ==
    /\ pc[p] = "load"
    /\ LET r == LoadHistory(fs[historyPath(store[p])])
           ex == IF r.err # "" THEN << >> ELSE r.snapshots
       IN /\ err' = [err EXCEPT ![p] = r.err]
          /\ existing' = [existing EXCEPT ![p] = ex]
          /\ toSave' = [toSave EXCEPT ![p] = Append(ex, snap[p])]
    /\ nilArg' = [nilArg EXCEPT ![p] = FALSE]
    /\ pc' = [pc EXCEPT ![p] = "save"]
    /\ UNCHANGED << fs, now, op, store, snap, data, ret, calls, pureVars >>

\* a direct SaveHistory(entries) call
CallSave(p, st, entries, isNil) ==
    /\ Idle(p)
    /\ isNil => entries = << >>
    /\ op' = [op EXCEPT ![p] = "save"]
    /\ store' = [store EXCEPT ![p] = st]
    /\ toSave' = [toSave EXCEPT ![p] = entries]
    /\ nilArg' = [nilArg EXCEPT ![p] = isNil]
    /\ ret' = [ret EXCEPT ![p] = NoRet]
    /\ err' = [err EXCEPT ![p] = ""]
    /\ pc' = [pc EXCEPT ![p] = "save"]
    /\ calls' = calls + 1
    /\ UNCHANGED << fs, now, snap, existing, data, pureVars >>

\* variant: a recording call reads the file again when it saves and appends
\* its snapshot to what is there by then
SaveOpenReloads(p) ==
    /\ pc[p] = "save"
    /\ LET cur == LoadHistory(fs[historyPath(store[p])]).snapshots
           src == IF op[p] = "record" THEN Append(cur, snap[p]) ELSE toSave[p]
       IN data' = [data EXCEPT ![p] = MarshalIndent(Trim(src), nilArg[p])]
    /\ fs' = [fs EXCEPT ![historyPath(store[p])] = OpenTrunc(@)]
    /\ pc' = [pc EXCEPT ![p] = "write"]
    /\ UNCHANGED << now, op, store, snap, existing, toSave, nilArg, ret, calls, err, pureVars >>

\* SaveHistory up to and including the truncating open of os.WriteFile
SaveOpen(p) ==
    /\ pc[p] = "save"
    /\ data' = [data EXCEPT ![p] = MarshalIndent(Trim(toSave[p]), nilArg[p])]
    /\ fs' = [fs EXCEPT ![historyPath(store[p])] = OpenTrunc(@)]
    /\ pc' = [pc EXCEPT ![p] = "write"]
    /\ UNCHANGED << now, op, store, snap, existing, toSave, nilArg, ret, calls, err, pureVars >>

\* SaveHistory: MkdirAll or the open fails; nothing is written
SaveOpenFail(p) ==
    /\ pc[p] = "save"
    /\ ret' = [ret EXCEPT ![p] = ErrRet("storage")]
    /\ pc' = [pc EXCEPT ![p] = "idle"]
    /\ data' = NoLocals(data, p)
    /\ UNCHANGED << fs, now, op, store, snap, existing, toSave, nilArg, calls, err, pureVars >>

\* SaveHistory: the write succeeds and the call returns; RecordSnapshot
\* returns snap
SaveWrite(p) ==
    /\ pc[p] = "write"
    /\ fs' = [fs EXCEPT ![historyPath(store[p])] = WriteData(@, data[p])]
    /\ ret' = [ret EXCEPT ![p] = IF op[p] = "record" THEN OkRet(<< snap[p] >>, << >>)
                                                     ELSE OkRet(<< >>, << >>)]
    /\ pc' = [pc EXCEPT ![p] = "idle"]
    /\ data' = NoLocals(data, p)
    /\ UNCHANGED << now, op, store, snap, existing, toSave, nilArg, calls, err, pureVars >>

\* SaveHistory: the write fails after the file was truncated
SaveWriteFail(p) ==
    /\ pc[p] = "write"
    /\ ret' = [ret EXCEPT ![p] = ErrRet("storage")]
    /\ pc' = [pc EXCEPT ![p] = "idle"]
    /\ data' = NoLocals(data, p)
    /\ UNCHANGED << fs, now, op, store, snap, existing, toSave, nilArg, calls, err, pureVars >>

\* a direct LoadHistory() call
CallLoad(p, st) ==
    /\ Idle(p)
    /\ op' = [op EXCEPT ![p] = "load"]
    /\ store' = [store EXCEPT ![p] = st]
    /\ LET r == LoadHistory(fs[historyPath(st)])
       IN ret' = [ret EXCEPT ![p] = IF r.err # "" THEN ErrRet(r.err)
                                                   ELSE OkRet(<< >>, r.snapshots)]
    /\ err' = [err EXCEPT ![p] = ""]
    /\ calls' = calls + 1
    /\ UNCHANGED << fs, now, pc, snap, existing, toSave, nilArg, data, pureVars >>

\* record commands of both packages run as concurrent processes
Next ==
    \/ Tick
    \/ \E p \in Procs, st \in Stores : RecordCaptureFail(p, st)
    \/ \E p \in Procs, st \in Stores, v \in Values : RecordCapture(p, st, v)
    \/ \E p \in Procs : RecordLoad(p)
    \/ \E p \in Procs : SaveOpen(p)
    \/ \E p \in Procs : SaveOpenFail(p)
    \/ \E p \in Procs : SaveWrite(p)
    \/ \E p \in Procs : SaveWriteFail(p)

Spec == Init /\ [][Next]_vars

\* one caller of one package's API (power's or disk's), one call after the
\* other, SaveHistory included
Caller == "p1"

ApiNext ==
    \/ Tick /\ pc[Caller] = "idle"
    \/ RecordCaptureFail(Caller, store[Caller])
    \/ \E v \in Values : RecordCapture(Caller, store[Caller], v)
    \/ RecordLoad(Caller)
    \/ \E entries \in SaveInputs, isNil \in BOOLEAN :
          CallSave(Caller, store[Caller], entries, isNil)
    \/ SaveOpen(Caller)
    \/ SaveOpenFail(Caller)
    \/ SaveWrite(Caller)
    \/ SaveWriteFail(Caller)
    \/ CallLoad(Caller, store[Caller])

\* power's caller may find a history file that is corrupt or already full
ApiInit ==
    /\ PureIdle
    /\ now = 0
    /\ \/ HistInit(InitialFiles \cup CorruptFiles \cup {FileOf(MarshalIndent(FullHistory, FALSE))},
                    InitialDiskFiles, {"power"})
       \/ HistInit({AbsentFile}, InitialDiskFiles, {"disk"})

ApiSpec == ApiInit /\ [][ApiNext]_vars

\* ------------------------------------------------------------ FilterHistory
\* variant: time.Time.Before(cutoff) negated, which lets the cutoff itself in
AfterOrEqual(t, u) == t >= u

\* time.Time.After
After(t, u) == t > u

\* the loop of FilterHistory from entry i on, filtered being the result so far
RECURSIVE FilterLoop(_, _, _, _)
FilterLoop(snapshots, cutoff, i, filtered) ==
    IF i > Len(snapshots)
    THEN filtered
    ELSE FilterLoop(snapshots, cutoff, i + 1,
                    IF After(snapshots[i].Timestamp, cutoff)
                    THEN Append(filtered, snapshots[i])
                    ELSE filtered)

\* variant: the cutoff is taken since ahead of the clock instead of behind
FilterHistoryCutoffAhead(snapshots, since, clock) ==
    FilterLoop(snapshots, clock + since, 1, << >>)

\* FilterHistory(snapshots, since) called when time.Now() reads clock
FilterHistory(snapshots, since, clock) ==
    FilterLoop(snapshots, clock - since, 1, << >>)

\* the history store stays as constructed while a pure function is studied
HistIdle ==
    /\ HistInit({AbsentFile}, {AbsentFile}, {"power"})

\* a history whose entries carry the timestamps ts
FilterEntries(ts) == [i \in DOMAIN ts |-> Snapshot(ts[i], 1)]

Sinces == (-1)..MaxSince

NoFilterOut == [narrow |-> << >>, at |-> 0, wide |-> << >>, atWide |-> 0]

\* FilterHistory is called twice on one list, with a window and with a window
\* at least as wide
FilterInit ==
    /\ HistIdle
    /\ now \in 0..MaxTs
    /\ \E n \in 0..MaxLen :
          \E ts \in [1..n -> 0..MaxTs], s \in Sinces, w \in Sinces :
             /\ s <= w
             /\ inp = [entries |-> FilterEntries(ts), since |-> s, wider |-> w]
    /\ out = NoFilterOut
    /\ step = "start"

\* first call
FilterNarrow ==
    /\ step = "start"
    /\ out' = [out EXCEPT !.narrow = FilterHistory(inp.entries, inp.since, now), !.at = now]
    /\ step' = "half"
    /\ UNCHANGED << fs, now, pc, op, store, snap, existing, toSave, nilArg, data, err, ret,
                    calls, inp >>

\* the clock may advance between the calls
FilterTick ==
    /\ step = "half"
    /\ now < MaxTs
    /\ now' = now + 1
    /\ UNCHANGED << fs, pc, op, store, snap, existing, toSave, nilArg, data, err, ret,
                    calls, pureVars >>

\* second call
FilterWide ==
    /\ step = "half"
    /\ out' = [out EXCEPT !.wide = FilterHistory(inp.entries, inp.wider, now), !.atWide = now]
    /\ step' = "done"
    /\ UNCHANGED << fs, now, pc, op, store, snap, existing, toSave, nilArg, data, err, ret,
                    calls, inp >>

FilterNext == FilterNarrow \/ FilterTick \/ FilterWide

FilterSpec == FilterInit /\ [][FilterNext]_vars

\* ------------------------------------------------------ the events command
\* EventType constants
EventWake == "wake"

EventSleep == "sleep"

EventLidOpen == "lid_open"

EventLidClose == "lid_close"

EventThermal == "thermal_throttle"

EventPowerSource == "power_source_change"

\* PowerEvent; Detail is modelled by the position of the line it came from
PowerEvent(ts, type, detail, count) ==
    [Timestamp |-> ts, Type |-> type, Detail |-> detail, Count |-> count]

\* the loop of the de-duplicator from event i on: retained is the current
\* retained event, last the most recently seen timestamp of its group,
\* result the events emitted so far
RECURSIVE DedupLoop(_, _, _, _, _, _)
DedupLoop(events, window, i, retained, last, result) ==
    IF i > Len(events)
    THEN Append(result, retained)
    ELSE LET e == events[i]
         IN IF e.Type = retained.Type /\ e.Timestamp - last <= window
            THEN DedupLoop(events, window, i + 1,
                           [retained EXCEPT !.Count = @ + 1], e.Timestamp, result)
            ELSE DedupLoop(events, window, i + 1,
                           [e EXCEPT !.Count = 1], e.Timestamp, Append(result, retained))

\* DeduplicateEvents(events, window)
DeduplicateEvents(events, window) ==
    IF Len(events) = 0
    THEN << >>
    ELSE DedupLoop(events, window, 2, [events[1] EXCEPT !.Count = 1],
                   events[1].Timestamp, << >>)

\* the --type filter of the events command
TypeFiltered(powerEvents, typeFilter) ==
    IF typeFilter # ""
    THEN SelectSeq(powerEvents, LAMBDA e : e.Type = typeFilter)
    ELSE powerEvents

\* 30*time.Second, the window the events command passes, in seconds
DedupWindow == 30

\* variant: the revision of the command that prints the events as classified
EventsCmdNoDedup(powerEvents, typeFilter) ==
    TypeFiltered(powerEvents, typeFilter)

\* variant: the command passes a window of a minute
EventsCmdMinute(powerEvents, typeFilter) ==
    DeduplicateEvents(TypeFiltered(powerEvents, typeFilter), 2 * DedupWindow)

\* variant: the command passes a window of ten seconds
EventsCmdShort(powerEvents, typeFilter) ==
    DeduplicateEvents(TypeFiltered(powerEvents, typeFilter), 10)

\* variant: the command hands the de-duplicator the events before the filter
EventsCmdUnfiltered(powerEvents, typeFilter) ==
    DeduplicateEvents(powerEvents, DedupWindow)

\* eventsCmd.RunE from the events it got to the events it prints
EventsCmd(powerEvents, typeFilter) ==
    DeduplicateEvents(TypeFiltered(powerEvents, typeFilter), DedupWindow)

\* categories and instants of the classified events the command is run on
DedupTypes == {EventWake, EventPowerSource}

Instants == {10 * t : t \in 0..MaxTick}

\* what GetEvents can return: events as the classifier emits them at the
\* instants ts with the categories ty, count 0 until the de-duplicator sets it
ClassifiedEvents(ts, ty) == [i \in DOMAIN ts |-> PowerEvent(ts[i], ty[i], i, 0)]

EventsInit ==
    /\ HistIdle
    /\ now = 0
    /\ \E n \in 0..MaxEvents :
          \E ts \in [1..n -> Instants], ty \in [1..n -> DedupTypes], tf \in {""} \cup DedupTypes :
             inp = [events |-> ClassifiedEvents(ts, ty), typeFilter |-> tf]
    /\ out = << >>
    /\ step = "start"

\* the command runs
EventsRun ==
    /\ step = "start"
    /\ out' = EventsCmd(inp.events, inp.typeFilter)
    /\ step' = "done"
    /\ UNCHANGED << histVars, inp >>

EventsNext == EventsRun

EventsSpec == EventsInit /\ [][EventsNext]_vars

\* the de-duplicator is run once more, on what the command printed
EventsAgain ==
    /\ step = "done"
    /\ out' = DeduplicateEvents(out, DedupWindow)
    /\ step' = "again"
    /\ UNCHANGED << histVars, inp >>

RepeatNext == EventsRun \/ EventsAgain

RepeatSpec == EventsInit /\ [][RepeatNext]_vars

\* ------------------------------------------------------------ ParseDuration
\* a Go string is the sequence of its characters, each a one-character string
Digits == << "0", "1", "2", "3", "4", "5", "6", "7", "8", "9" >>

IsDigit(c) == \E v \in 1..10 : Digits[v] = c

DigitValue(c) == (CHOOSE v \in 1..10 : Digits[v] = c) - 1

\* unicode.IsSpace over the characters the model uses
IsSpace(c) == c \in {" ", "\t", "\n", "\r"}

\* a time.Duration is an int64 count of nanoseconds; the model writes a count
\* as whole minutes, whole milliseconds of the next minute and nanoseconds of
\* the next millisecond, so that each part fits an integer of the checker
Duration(min, ms, ns) == [min |-> min, ms |-> ms, ns |-> ns]

\* math.MaxInt64 nanoseconds
MaxInt64 == Duration(153722867, 16854, 775807)

\* 2^64 nanoseconds, the modulus of int64 arithmetic
TwoTo64 == Duration(307445734, 33709, 551616)

DurationLE(a, b) ==
    \/ a.min < b.min
    \/ a.min = b.min /\ a.ms < b.ms
    \/ a.min = b.min /\ a.ms = b.ms /\ a.ns <= b.ns

DurationSub(a, b) ==
    LET ns == a.ns - b.ns
        bn == IF ns < 0 THEN 1 ELSE 0
        ms == a.ms - b.ms - bn
        bm == IF ms < 0 THEN 1 ELSE 0
    IN Duration(a.min - b.min - bm, ms + 60000 * bm, ns + 1000000 * bn)

\* the int64 a non-negative count comes out as: it wraps around modulo 2^64
RECURSIVE WrapInt64(_)
WrapInt64(d) == IF DurationLE(d, MaxInt64) THEN d ELSE WrapInt64(DurationSub(d, TwoTo64))

\* time.Minute, time.Hour and 24 * time.Hour, in minutes
UnitMinutes(unit) == CASE unit = "m" -> 1 [] unit = "h" -> 60 [] unit = "d" -> 24 * 60

\* the index of the first character of s at or after i that is no space
RECURSIVE SkipSpace(_, _)
SkipSpace(s, i) == IF i <= Len(s) /\ IsSpace(s[i]) THEN SkipSpace(s, i + 1) ELSE i

\* the index after the run of digits and underscores of s that starts at i
RECURSIVE ScanNumber(_, _)
ScanNumber(s, i) ==
    IF i <= Len(s) /\ (IsDigit(s[i]) \/ s[i] = "_") THEN ScanNumber(s, i + 1) ELSE i

\* the index of the first character of s at or after i that is not "0"
RECURSIVE SkipZeros(_, _)
SkipZeros(s, i) == IF i <= Len(s) /\ s[i] = "0" THEN SkipZeros(s, i + 1) ELSE i

RECURSIVE DecimalValue(_, _, _)
DecimalValue(s, i, acc) ==
    IF i > Len(s) THEN acc ELSE DecimalValue(s, i + 1, 10 * acc + DigitValue(s[i]))

\* the digits an int64 has at most; a token with more significant digits is
\* out of range for strconv.ParseInt
Int64Digits == 19

\* fmt.Sscanf(numStr, "%d", &num): spaces are skipped, one sign is taken,
\* then the run of digits and underscores is the token that strconv.ParseInt
\* reads in base 10; what follows the token is not looked at
Sscanf(numStr) ==
    LET start == SkipSpace(numStr, 1)
        signed == start <= Len(numStr) /\ numStr[start] \in {"+", "-"}
        from == IF signed THEN start + 1 ELSE start
        to == ScanNumber(numStr, from)
        tok == SubSeq(numStr, from, to - 1)
        significant == SubSeq(tok, SkipZeros(tok, 1), Len(tok))
        value == DecimalValue(significant, 1, 0)
    IN IF start > Len(numStr) THEN [err |-> "unexpected EOF", num |-> 0]
       ELSE IF to = from THEN [err |-> "expected integer", num |-> 0]
       ELSE IF \E i \in 1..Len(tok) : tok[i] = "_" THEN [err |-> "invalid syntax", num |-> 0]
       ELSE IF Len(significant) > Int64Digits THEN [err |-> "value out of range", num |-> 0]
       ELSE [err |-> "", num |-> IF signed /\ numStr[start] = "-" THEN 0 - value ELSE value]

ZeroDuration == Duration(0, 0, 0)

\* variant: an unknown unit is read as hours
ParseDurationDefaultUnit(s) ==
    IF Len(s) < 2
    THEN [err |-> "invalid duration", d |-> ZeroDuration]
    ELSE LET unit == s[Len(s)]
             scan == Sscanf(SubSeq(s, 1, Len(s) - 1))
         IN IF scan.err # "" THEN [err |-> "invalid duration", d |-> ZeroDuration]
            ELSE IF scan.num <= 0
            THEN [err |-> "duration must be positive", d |-> ZeroDuration]
            ELSE IF unit \in {"m", "h", "d"}
            THEN [err |-> "", d |-> WrapInt64(Duration(scan.num * UnitMinutes(unit), 0, 0))]
            ELSE [err |-> "", d |-> WrapInt64(Duration(scan.num * UnitMinutes("h"), 0, 0))]

\* ParseDuration(s)
ParseDuration(s) ==
    IF Len(s) < 2
    THEN [err |-> "invalid duration", d |-> ZeroDuration]
    ELSE LET unit == s[Len(s)]
             scan == Sscanf(SubSeq(s, 1, Len(s) - 1))
         IN IF scan.err # "" THEN [err |-> "invalid duration", d |-> ZeroDuration]
            ELSE IF scan.num <= 0
            THEN [err |-> "duration must be positive", d |-> ZeroDuration]
            ELSE IF unit \in {"m", "h", "d"}
            THEN [err |-> "", d |-> WrapInt64(Duration(scan.num * UnitMinutes(unit), 0, 0))]
            ELSE [err |-> "unsupported duration unit", d |-> ZeroDuration]

\* the decimal numeral of n
RECURSIVE Numeral(_)
Numeral(n) == IF n < 10 THEN << Digits[n + 1] >> ELSE Append(Numeral(n \div 10), Digits[(n % 10) + 1])

\* the largest n for which n units fit an int64 of nanoseconds
Limit(unit) == MaxInt64.min \div UnitMinutes(unit)

\* a numeral no int64 holds
BigNumeral == [i \in 1..(Int64Digits + 1) |-> "9"]

Units == {"m", "h", "d"}

\* characters of the --last values the commands are run with
DurationAlphabet == {"0", "1", "5", "-", "+", " ", ".", "h", "m", "d", "s"}

NoDuration == [err |-> "none", d |-> ZeroDuration]

\* the --last value: any short text, or a numeral around the largest that
\* fits, or one that no int64 holds, followed by a unit
DurationInit ==
    /\ HistIdle
    /\ now = 0
    /\ \/ \E n \in 0..MaxStr : \E s \in [1..n -> DurationAlphabet] : inp = [text |-> s]
       \/ \E u \in Units, i \in 0..Over : inp = [text |-> Append(Numeral(Limit(u) + i), u)]
       \/ \E u \in Units : inp = [text |-> Append(BigNumeral, u)]
    /\ out = NoDuration
    /\ step = "start"

\* the command parses its --last value
DurationRun ==
    /\ step = "start"
    /\ out' = ParseDuration(inp.text)
    /\ step' = "done"
    /\ UNCHANGED << histVars, inp >>

DurationNext == DurationRun

DurationSpec == DurationInit /\ [][DurationNext]_vars

\* ------------------------------------------------------- the log classifier
\* the lower-case letter of each upper-case letter
LowerCase ==
    "A" :> "a" @@ "B" :> "b" @@ "C" :> "c" @@ "D" :> "d" @@ "E" :> "e" @@ "F" :> "f"
    @@ "G" :> "g" @@ "H" :> "h" @@ "I" :> "i" @@ "J" :> "j" @@ "K" :> "k" @@ "L" :> "l"
    @@ "M" :> "m" @@ "N" :> "n" @@ "O" :> "o" @@ "P" :> "p" @@ "Q" :> "q" @@ "R" :> "r"
    @@ "S" :> "s" @@ "T" :> "t" @@ "U" :> "u" @@ "V" :> "v" @@ "W" :> "w" @@ "X" :> "x"
    @@ "Y" :> "y" @@ "Z" :> "z"

\* strings.ToLower
ToLower(s) == [i \in 1..Len(s) |-> IF s[i] \in DOMAIN LowerCase THEN LowerCase[s[i]] ELSE s[i]]

\* substr occurs in s at position i
OccursAt(s, i, substr) == \A j \in 1..Len(substr) : s[i + j - 1] = substr[j]

\* strings.Index, counted from 1; 0 when substr does not occur
Index(s, substr) ==
    LET at == {i \in 1..(Len(s) - Len(substr) + 1) : OccursAt(s, i, substr)}
    IN IF at = {} THEN 0 ELSE CHOOSE i \in at : \A j \in at : i <= j

\* strings.Contains
Contains(s, substr) == \E i \in 1..(Len(s) - Len(substr) + 1) : OccursAt(s, i, substr)

\* the index of the last character of s at or before i that is no space
RECURSIVE SkipSpaceBack(_, _)
SkipSpaceBack(s, i) == IF i >= 1 /\ IsSpace(s[i]) THEN SkipSpaceBack(s, i - 1) ELSE i

\* strings.TrimSpace
TrimSpace(s) == SubSeq(s, SkipSpace(s, 1), SkipSpaceBack(s, Len(s)))

\* strings.Split(s, "\n")
RECURSIVE Split(_)
Split(s) ==
    LET nl == Index(s, << "\n" >>)
    IN IF nl = 0
       THEN << s >>
       ELSE << SubSeq(s, 1, nl - 1) >> \o Split(SubSeq(s, nl + 1, Len(s)))

\* s has digits at the positions from..to
AllDigits(s, from, to) == to <= Len(s) /\ \A i \in from..to : IsDigit(s[i])

\* s has character c at position i
HasChar(s, i, c) == i <= Len(s) /\ s[i] = c

\* \s of the regular expression
IsReSpace(c) == c \in {" ", "\t", "\n", "\r", "\f"}

\* the index after the run of \s characters of s that starts at i
RECURSIVE SkipReSpace(_, _)
SkipReSpace(s, i) == IF i <= Len(s) /\ IsReSpace(s[i]) THEN SkipReSpace(s, i + 1) ELSE i

\* the index after the run of digits of s that starts at i
RECURSIVE SkipDigits(_, _)
SkipDigits(s, i) == IF i <= Len(s) /\ IsDigit(s[i]) THEN SkipDigits(s, i + 1) ELSE i

NoMatch == [ok |-> FALSE, stamp |-> << >>, len |-> 0]

\* timestampRe.FindStringSubmatch(line): stamp is m[1], len is len(m[0]).
\* ^(\d{4}-\d{2}-\d{2}\s+\d{2}:\d{2}:\d{2}\.\d+(?:[+-]\d{4})?)\s+
\* Each repetition is followed by something it cannot match, so the greedy
\* match is the only one.
timestampRe(line) ==
    LET time == SkipReSpace(line, 11)
        frac == time + 8
        zone == SkipDigits(line, frac + 1)
        end == IF zone <= Len(line) /\ line[zone] \in {"+", "-"}
                  /\ AllDigits(line, zone + 1, zone + 4)
               THEN zone + 5
               ELSE zone
        rest == SkipReSpace(line, end)
    IN IF /\ AllDigits(line, 1, 4) /\ HasChar(line, 5, "-")
          /\ AllDigits(line, 6, 7) /\ HasChar(line, 8, "-")
          /\ AllDigits(line, 9, 10)
          /\ time > 11
          /\ AllDigits(line, time, time + 1) /\ HasChar(line, time + 2, ":")
          /\ AllDigits(line, time + 3, time + 4) /\ HasChar(line, time + 5, ":")
          /\ AllDigits(line, time + 6, time + 7)
          /\ HasChar(line, frac, ".")
          /\ zone > frac + 1
          /\ rest > end
       THEN [ok |-> TRUE, stamp |-> SubSeq(line, 1, end - 1), len |-> rest - 1]
       ELSE NoMatch

\* time.Time as parseTimestamp returns it: Unix seconds and nanoseconds
Time(unix, nsec) == [unix |-> unix, nsec |-> nsec]

NoTime == [err |-> "cannot parse", t |-> Time(0, 0)]

\* the days from 1970-01-01 to the civil date year-month-day
DaysFromCivil(year, month, day) ==
    LET y == IF month <= 2 THEN year - 1 ELSE year
        era == y \div 400
        yoe == y % 400
        doy == (153 * ((month + 9) % 12) + 2) \div 5 + day - 1
        doe == yoe * 365 + yoe \div 4 - yoe \div 100 + doy
    IN era * 146097 + doe - 719468

\* the number of days of a month of a year
DaysIn(month, year) ==
    IF month = 2
    THEN IF year % 4 = 0 /\ (year % 100 # 0 \/ year % 400 = 0) THEN 29 ELSE 28
    ELSE IF month \in {4, 6, 9, 11} THEN 30 ELSE 31

RECURSIVE Pow10(_)
Pow10(n) == IF n = 0 THEN 1 ELSE 10 * Pow10(n - 1)

\* the six layouts of parseTimestamp, in its order: the digits of the
\* fractional seconds the layout demands (0: none stated) and whether it
\* ends in a numeric zone
Layouts ==
    << [frac |-> 6, zone |-> TRUE], [frac |-> 3, zone |-> TRUE], [frac |-> 0, zone |-> TRUE],
       [frac |-> 6, zone |-> FALSE], [frac |-> 3, zone |-> FALSE], [frac |-> 0, zone |-> FALSE] >>

\* time.Parse(layout, s) for a layout "2006-01-02 15:04:05[.000[000]][-0700]".
\* A space of the layout stands for a run of spaces of the value; a layout
\* that states no fractional seconds still takes a fraction that follows the
\* seconds; a layout without a zone gives UTC.
Parse(layout, s) ==
    LET time == SkipSpace(s, 11)
        frac == time + 8
        hasFrac == frac <= Len(s) /\ s[frac] \in {".", ","}
        zone == IF layout.frac > 0
                THEN frac + 1 + layout.frac
                ELSE IF hasFrac /\ AllDigits(s, frac + 1, frac + 1)
                     THEN SkipDigits(s, frac + 1)
                     ELSE frac
        digits == IF zone - frac - 1 > 9 THEN 9 ELSE zone - frac - 1
        nsec == IF zone = frac
                THEN 0
                ELSE DecimalValue(SubSeq(s, frac + 1, frac + digits), 1, 0) * Pow10(9 - digits)
        end == IF layout.zone THEN zone + 5 ELSE zone
        year == DecimalValue(SubSeq(s, 1, 4), 1, 0)
        month == DecimalValue(SubSeq(s, 6, 7), 1, 0)
        day == DecimalValue(SubSeq(s, 9, 10), 1, 0)
        hour == DecimalValue(SubSeq(s, time, time + 1), 1, 0)
        min == DecimalValue(SubSeq(s, time + 3, time + 4), 1, 0)
        sec == DecimalValue(SubSeq(s, time + 6, time + 7), 1, 0)
        zoneHour == DecimalValue(SubSeq(s, zone + 1, zone + 2), 1, 0)
        zoneMin == DecimalValue(SubSeq(s, zone + 3, zone + 4), 1, 0)
        offset == IF layout.zone
                  THEN (IF s[zone] = "-" THEN -1 ELSE 1) * (zoneHour * 60 + zoneMin) * 60
                  ELSE 0
    IN IF /\ AllDigits(s, 1, 4) /\ HasChar(s, 5, "-")
          /\ AllDigits(s, 6, 7) /\ HasChar(s, 8, "-")
          /\ AllDigits(s, 9, 10)
          /\ HasChar(s, 11, " ")
          /\ AllDigits(s, time, time + 1) /\ HasChar(s, time + 2, ":")
          /\ AllDigits(s, time + 3, time + 4) /\ HasChar(s, time + 5, ":")
          /\ AllDigits(s, time + 6, time + 7)
          /\ (layout.frac > 0 => hasFrac /\ AllDigits(s, frac + 1, zone - 1))
          /\ (layout.zone => /\ zone <= Len(s) /\ s[zone] \in {"+", "-"}
                             /\ AllDigits(s, zone + 1, zone + 4)
                             /\ zoneHour <= 24 /\ zoneMin <= 60)
          /\ end = Len(s) + 1
          /\ month \in 1..12 /\ day \in 1..DaysIn(month, year)
          /\ hour < 24 /\ min < 60 /\ sec < 60
       THEN [err |-> "",
             t |-> Time(DaysFromCivil(year, month, day) * 86400
                        + hour * 3600 + min * 60 + sec - offset, nsec)]
       ELSE NoTime

\* the loop of parseTimestamp from layout i on: the first layout that parses wins
RECURSIVE TryLayouts(_, _)
TryLayouts(s, i) ==
    IF i > Len(Layouts)
    THEN NoTime
    ELSE IF Parse(Layouts[i], s).err = "" THEN Parse(Layouts[i], s) ELSE TryLayouts(s, i + 1)

parseTimestamp(s) == TryLayouts(s, 1)

EventPowerUnknown == "power_event"

\* strings.Contains(lower, k) for one of the keywords
ContainsAny(lower, keywords) == \E k \in keywords : Contains(lower, k)

WakeKeywords ==
    {<< "w", "a", "k", "e", " ", "r", "e", "a", "s", "o", "n" >>,
     << "w", "a", "k", "i", "n", "g" >>,
     << "d", "i", "s", "p", "l", "a", "y", " ", "w", "a", "k", "e" >>,
     << "d", "a", "r", "k", "w", "a", "k", "e" >>,
     << "f", "u", "l", "l", "w", "a", "k", "e" >>}

SleepKeywords ==
    {<< "s", "l", "e", "e", "p", " ", "r", "e", "a", "s", "o", "n" >>,
     << "e", "n", "t", "e", "r", "i", "n", "g", " ", "s", "l", "e", "e", "p" >>,
     << "g", "o", "i", "n", "g", " ", "t", "o", " ", "s", "l", "e", "e", "p" >>,
     << "m", "a", "i", "n", "t", "e", "n", "a", "n", "c", "e", " ", "s", "l", "e", "e", "p" >>,
     << "s", "l", "e", "e", "p", "s", "e", "r", "v", "i", "c", "e" >>}

LidOpenKeywords ==
    {<< "l", "i", "d", "o", "p", "e", "n" >>,
     << "l", "i", "d", " ", "o", "p", "e", "n" >>}

LidCloseKeywords ==
    {<< "l", "i", "d", "c", "l", "o", "s", "e" >>,
     << "l", "i", "d", " ", "c", "l", "o", "s", "e" >>,
     << "c", "l", "a", "m", "s", "h", "e", "l", "l" >>}

ThermalKeywords ==
    {<< "t", "h", "r", "o", "t", "t", "l" >>,
     << "p", "r", "e", "s", "s", "u", "r", "e" >>}

PowerSourceKeywords ==
    {<< "p", "o", "w", "e", "r", " ", "s", "o", "u", "r", "c", "e" >>,
     << "a", "c", " ", "p", "o", "w", "e", "r" >>,
     << "b", "a", "t", "t", "e", "r", "y", " ", "p", "o", "w", "e", "r" >>,
     << "a", "c", "c", "p", "o", "w", "e", "r", "s", "o", "u", "r", "c", "e", "s" >>}

\* variant: the lid cases are tested before the wake and sleep cases
ClassifyLidFirst(lower) ==
    CASE ContainsAny(lower, LidOpenKeywords) -> EventLidOpen
      [] ContainsAny(lower, LidCloseKeywords) -> EventLidClose
      [] ContainsAny(lower, WakeKeywords) -> EventWake
      [] ContainsAny(lower, SleepKeywords) -> EventSleep
      [] Contains(lower, << "t", "h", "e", "r", "m", "a", "l" >>) /\ ContainsAny(lower, ThermalKeywords) -> EventThermal
      [] ContainsAny(lower, PowerSourceKeywords) -> EventPowerSource
      [] OTHER -> ""

\* variant: a line with no keyword gets the catch-all category
ClassifyUnknown(lower) ==
    IF ContainsAny(lower, WakeKeywords) THEN EventWake
    ELSE IF ContainsAny(lower, SleepKeywords) THEN EventSleep
    ELSE IF ContainsAny(lower, LidOpenKeywords) THEN EventLidOpen
    ELSE IF ContainsAny(lower, LidCloseKeywords) THEN EventLidClose
    ELSE IF Contains(lower, << "t", "h", "e", "r", "m", "a", "l" >>) /\ ContainsAny(lower, ThermalKeywords) THEN EventThermal
    ELSE IF ContainsAny(lower, PowerSourceKeywords) THEN EventPowerSource
    ELSE EventPowerUnknown

\* the switch of parseLine: the first case that holds gives the type, "" is
\* its default (no event)
Classify(lower) ==
    IF ContainsAny(lower, WakeKeywords) THEN EventWake
    ELSE IF ContainsAny(lower, SleepKeywords) THEN EventSleep
    ELSE IF ContainsAny(lower, LidOpenKeywords) THEN EventLidOpen
    ELSE IF ContainsAny(lower, LidCloseKeywords) THEN EventLidClose
    ELSE IF Contains(lower, << "t", "h", "e", "r", "m", "a", "l" >>) /\ ContainsAny(lower, ThermalKeywords) THEN EventThermal
    ELSE IF ContainsAny(lower, PowerSourceKeywords) THEN EventPowerSource
    ELSE ""

\* the length at which extractDetail cuts a detail
DetailLimit == 200

\* strings.SplitN(s, "  ", 2) finds a separator
extractDetail(s) ==
    LET sep == Index(s, << " ", " " >>)
    IN IF sep # 0
       THEN TrimSpace(SubSeq(s, sep + 2, Len(s)))
       ELSE IF Len(s) > DetailLimit
            THEN SubSeq(s, 1, DetailLimit) \o << ".", ".", "." >>
            ELSE TrimSpace(s)

\* parseLine returns nil
NoEvent == [ok |-> FALSE, event |-> PowerEvent(Time(0, 0), "", << >>, 0)]

parseLine(line) ==
    LET m == timestampRe(line)
        ts == parseTimestamp(m.stamp)
        rest == SubSeq(line, m.len + 1, Len(line))
        eventType == Classify(ToLower(rest))
    IN IF ~m.ok \/ ts.err # "" \/ eventType = ""
       THEN NoEvent
       ELSE [ok |-> TRUE, event |-> PowerEvent(ts.t, eventType, extractDetail(rest), 0)]

\* the loop of parseLogOutput over the lines from i on
RECURSIVE ParseLines(_, _, _)
ParseLines(lines, i, events) ==
    IF i > Len(lines)
    THEN events
    ELSE LET line == TrimSpace(lines[i])
         IN IF line = << >>
            THEN ParseLines(lines, i + 1, events)
            ELSE IF parseLine(line).ok
                 THEN ParseLines(lines, i + 1, Append(events, parseLine(line).event))
                 ELSE ParseLines(lines, i + 1, events)

\* variant: the output is read as one line
parseLogOutputWhole(output) == ParseLines(<< output >>, 1, << >>)

parseLogOutput(output) == ParseLines(Split(output), 1, << >>)

\* the timestamp 2025-01-15 10:30:<sec> of a log line in one of the shapes
\* the log tool prints: frac is the text of the fractional seconds, zone the
\* text of the numeric offset; unix and nsec are the instant the text names
Stamp(sec, frac, nsec, zone, shift) ==
    [text |-> << "2", "0", "2", "5", "-", "0", "1", "-", "1", "5", " ", "1", "0", ":", "3", "0", ":" >> \o Numeral(sec) \o frac \o zone,
     unix |-> 1736937000 + sec + shift,
     nsec |-> nsec,
     frac |-> frac # << >>]

\* the six shapes, each at the given second
SixShapes(sec) ==
    {Stamp(sec, frac[1], frac[2], zone[1], zone[2]) :
        frac \in {<< << ".", "1", "2", "3", "4", "5", "6" >>, 123456000 >>, << << ".", "1", "2", "3" >>, 123000000 >>, << << >>, 0 >>},
        zone \in {<< << "-", "0", "8", "0", "0" >>, 28800 >>, << << >>, 0 >>}}

\* a line that does not begin with a timestamp
NoStamp == [text |-> << >>, unix |-> 0, nsec |-> 0, frac |-> FALSE]

\* a line that begins with the digits of no date
BadStamp == [text |-> << "2", "0", "2", "5", "-", "1", "3", "-", "4", "5", " ", "1", "0", ":", "3", "0", ":", "4", "5", ".", "1", "2", "3" >>, unix |-> 0, nsec |-> 0, frac |-> TRUE]

\* what comes between the timestamp and the message: nothing, the metadata
\* of the compact style, the metadata of the older style (two spaces before
\* the message)
Prefixes ==
    {<< >>,
     << "D", "f", " ", "p", "o", "w", "e", "r", "d", "[", "1", ":", "1", "]", " ", "[", "x", "]", " " >>,
     << "0", "x", "1", "2", "3", " ", "D", "e", "f", "a", "u", "l", "t", " ", " " >>}

Phrases ==
    {<< "W", "a", "k", "e", " ", "R", "e", "a", "s", "o", "n", ":" >>,
     << "E", "n", "t", "e", "r", "i", "n", "g", " ", "S", "l", "e", "e", "p" >>,
     << "E", "C", ".", "L", "i", "d", "O", "p", "e", "n" >>,
     << "C", "l", "a", "m", "s", "h", "e", "l", "l" >>,
     << "T", "h", "e", "r", "m", "a", "l" >>,
     << "p", "r", "e", "s", "s", "u", "r", "e" >>,
     << "A", "C", " ", "P", "o", "w", "e", "r" >>,
     << "i", "d", "l", "e" >>}

\* the phrases ws with a space between them
RECURSIVE JoinWords(_)
JoinWords(ws) ==
    IF Len(ws) = 1 THEN ws[1] ELSE ws[1] \o << " " >> \o JoinWords(Tail(ws))

Messages == UNION {{JoinWords(ws) : ws \in [1..n -> Phrases]} : n \in 1..MaxWords}

\* a wake message of n characters
LongMessage(n) ==
    [i \in 1..n |-> IF i <= 13 THEN << "W", "a", "k", "e", " ", "R", "e", "a", "s", "o", "n", ":", " " >>[i] ELSE "x"]

\* messages at the limit of a detail and beyond its limit and ellipsis
LongMessages == {LongMessage(DetailLimit), LongMessage(DetailLimit + 3 + Excess)}

\* a line of the log by its parts
Line(indent, stamp, prefix, message) ==
    [indent |-> indent, stamp |-> stamp, prefix |-> prefix, message |-> message]

\* the text of a line
LineText(l) ==
    l.indent \o l.stamp.text
    \o (IF l.stamp.text = << >> THEN << >> ELSE << " " >>)
    \o l.prefix \o l.message

\* the output of the log tool: every line ends in a newline
RECURSIVE LogText(_)
LogText(ls) ==
    IF ls = << >> THEN << >> ELSE LineText(Head(ls)) \o << "\n" >> \o LogText(Tail(ls))

\* the lines a log of several lines is made of
LinePool ==
    {Line(<< >>, Stamp(45, << ".", "1", "2", "3" >>, 123000000, << "-", "0", "8", "0", "0" >>, 28800), << "D", "f", " ", "p", "o", "w", "e", "r", "d", "[", "1", ":", "1", "]", " ", "[", "x", "]", " " >>, << "W", "a", "k", "e", " ", "R", "e", "a", "s", "o", "n", ":", " ", "E", "C", ".", "L", "i", "d", "O", "p", "e", "n" >>),
     Line(<< " ", " " >>, Stamp(10, << ".", "5", "0", "0", "0", "0", "0" >>, 500000000, << >>, 0), << >>, << "D", "a", "r", "k", "W", "a", "k", "e", " ", "f", "r", "o", "m", " ", "N", "o", "r", "m", "a", "l", " ", "S", "l", "e", "e", "p" >>),
     Line(<< >>, Stamp(50, << ".", "1", "2", "3" >>, 123000000, << >>, 0), << "0", "x", "1", "2", "3", " ", "D", "e", "f", "a", "u", "l", "t", " ", " " >>, << "E", "n", "t", "e", "r", "i", "n", "g", " ", "S", "l", "e", "e", "p" >>),
     Line(<< >>, NoStamp, << >>, << "W", "a", "k", "e", " ", "R", "e", "a", "s", "o", "n", ":", " ", "E", "C", ".", "L", "i", "d", "O", "p", "e", "n" >>),
     Line(<< >>, Stamp(45, << ".", "1", "2", "3" >>, 123000000, << >>, 0), << >>, << "i", "d", "l", "e" >>),
     Line(<< >>, NoStamp, << >>, << >>)}

\* the --type values
TypeFilters == {"", EventWake}

LogInput(ls, tf) == [output |-> LogText(ls), lines |-> ls, typeFilter |-> tf]

NoEvents == [events |-> << >>, shown |-> << >>]

\* the events command before it runs: without --type over a log of one line
\* of any shape, or with any --type over a log of several lines
LogInit ==
    /\ HistIdle
    /\ now = 0
    /\ \/ \E stamp \in SixShapes(45) \cup {NoStamp, BadStamp}, prefix \in Prefixes,
             message \in Messages \cup LongMessages :
             inp = LogInput(<< Line(<< >>, stamp, prefix, message) >>, "")
       \/ \E n \in 2..MaxLines :
             \E ls \in [1..n -> LinePool], tf \in TypeFilters : inp = LogInput(ls, tf)
    /\ out = NoEvents
    /\ step = "start"

\* the log tool cannot be run
GetEventsFail ==
    /\ step = "start"
    /\ step' = "failed"
    /\ UNCHANGED << histVars, inp, out >>

\* the log tool ran and its output is parsed
GetEvents ==
    /\ step = "start"
    /\ out' = [out EXCEPT !.events = parseLogOutput(inp.output)]
    /\ step' = "parsed"
    /\ UNCHANGED << histVars, inp >>

\* the events as the command's stage takes them: instants in whole seconds
InSeconds(powerEvents) ==
    [i \in DOMAIN powerEvents |-> [powerEvents[i] EXCEPT !.Timestamp = powerEvents[i].Timestamp.unix]]

\* the command filters and de-duplicates the parsed events
ShowEvents ==
    /\ step = "parsed"
    /\ out' = [out EXCEPT !.shown = EventsCmd(InSeconds(out.events), inp.typeFilter)]
    /\ step' = "done"
    /\ UNCHANGED << histVars, inp >>

LogNext == GetEventsFail \/ GetEvents \/ ShowEvents

LogSpec == LogInit /\ [][LogNext]_vars

\* ------------------------------------------------------ the history commands
\* DefaultHistoryCount of history.go and of disk.go
DefaultHistoryCount == 20

\* LoadHistory returns a nil slice: there is no file, or the file holds null
LoadedNil(f) == ~f.exists \/ f.bytes = << Tok("null") >>

\* a duration in ticks of one minute, as FilterHistory compares it with
\* timestamps of whole minutes: t is after now - d exactly when it is after
\* now less the whole minutes of d, rounded up
SinceTicks(d) == IF d.ms = 0 /\ d.ns = 0 THEN d.min ELSE d.min + 1

NoDisplay == [status |-> "ok", cause |-> "", notice |-> "", shown |-> << >>]

\* variant: the default count also caps a filtered list
HistoryCmdAlwaysCaps(f, last, json, clock) ==
    LET loaded == LoadHistory(f)
        parsed == ParseDuration(last)
        filtered == FilterHistory(loaded.snapshots, SinceTicks(parsed.d), clock)
        snapshots == IF last # << >> THEN filtered ELSE loaded.snapshots
        capped == IF Len(snapshots) > DefaultHistoryCount
                  THEN SubSeq(snapshots, Len(snapshots) - DefaultHistoryCount + 1, Len(snapshots))
                  ELSE snapshots
    IN IF loaded.err # ""
       THEN [NoDisplay EXCEPT !.status = "error", !.cause = "failed to load history"]
       ELSE IF LoadedNil(f)
       THEN [NoDisplay EXCEPT !.notice = "no history recorded yet"]
       ELSE IF last # << >> /\ parsed.err # ""
       THEN [NoDisplay EXCEPT !.status = "error", !.cause = "invalid duration"]
       ELSE IF ~json /\ capped = << >>
       THEN [NoDisplay EXCEPT !.notice = "no entries match"]
       ELSE [NoDisplay EXCEPT !.shown = capped]

\* powerHistoryCmd.RunE and diskHistoryCmd.RunE on the history file f, with
\* the --last value last ("" when not given) and the --json flag, when
\* time.Now() reads clock
HistoryCmd(f, last, json, clock) ==
    LET loaded == LoadHistory(f)
        parsed == ParseDuration(last)
        filtered == FilterHistory(loaded.snapshots, SinceTicks(parsed.d), clock)
        snapshots == IF last # << >>
                     THEN filtered
                     ELSE IF Len(loaded.snapshots) > DefaultHistoryCount
                          THEN SubSeq(loaded.snapshots,
                                      Len(loaded.snapshots) - DefaultHistoryCount + 1,
                                      Len(loaded.snapshots))
                          ELSE loaded.snapshots
    IN IF loaded.err # ""
       THEN [NoDisplay EXCEPT !.status = "error", !.cause = "failed to load history"]
       ELSE IF LoadedNil(f)
       THEN [NoDisplay EXCEPT !.notice = "no history recorded yet"]
       ELSE IF last # << >> /\ parsed.err # ""
       THEN [NoDisplay EXCEPT !.status = "error", !.cause = "invalid duration"]
       ELSE IF ~json /\ snapshots = << >>
       THEN [NoDisplay EXCEPT !.notice = "no entries match"]
       ELSE [NoDisplay EXCEPT !.shown = snapshots]

\* a history of n snapshots recorded one a minute, at the minutes 1..n
MinuteHistory(n) == [i \in 1..n |-> Snapshot(i, (i % MaxValue) + 1)]

\* the history files the commands may find: none, null, an unreadable one and
\* arrays of up to DefaultHistoryCount + Excess + 1 snapshots
HistoryFiles ==
    {AbsentFile, FileOf(<< Tok("null") >>)} \cup CorruptFiles
    \cup {FileOf(MarshalIndent(MinuteHistory(n), FALSE)) : n \in 0..(DefaultHistoryCount + Excess + 1)}

\* the --last values: not given, durations of minutes and hours, and texts
\* ParseDuration refuses or reads in part
Lasts ==
    {<< >>, << "1", "m" >>, << "5", "m" >>, << "1", "h" >>, << "0", "m" >>, << "5", "s" >>, << "1", ".", "5", "h" >>, << "h" >>}

\* a history command before it runs
HistoryCmdInit ==
    /\ \/ HistInit(HistoryFiles, {AbsentFile}, {"power"})
       \/ HistInit({AbsentFile}, HistoryFiles, {"disk"})
    /\ now \in DefaultHistoryCount..(DefaultHistoryCount + MaxTs)
    /\ \E last \in Lasts, json \in BOOLEAN : inp = [last |-> last, json |-> json]
    /\ out = NoDisplay
    /\ step = "start"

\* the command of the package of Caller runs
HistoryCmdRun ==
    /\ step = "start"
    /\ out' = HistoryCmd(fs[historyPath(store[Caller])], inp.last, inp.json, now)
    /\ step' = "done"
    /\ UNCHANGED << histVars, inp >>

HistoryCmdNext == HistoryCmdRun

HistoryCmdSpec == HistoryCmdInit /\ [][HistoryCmdNext]_vars

\* ------------------------------------------------------------- the presets
\* Action of preset.go
Action(domain, command, args) == [Domain |-> domain, Command |-> command, Args |-> args]

\* Result of preset.go
Result(action, success, message) == [Action |-> action, Success |-> success, Message |-> message]

\* strings.Join(args, " ")
RECURSIVE JoinArgs(_)
JoinArgs(args) ==
    IF args = << >> THEN << >>
    ELSE IF Len(args) = 1 THEN args[1]
    ELSE args[1] \o << " " >> \o JoinArgs(Tail(args))

describeAction(a) ==
    IF JoinArgs(a.Args) # << >>
    THEN << "[" >> \o a.Domain \o << "]", " " >> \o a.Command \o << " " >> \o JoinArgs(a.Args)
    ELSE << "[" >> \o a.Domain \o << "]", " " >> \o a.Command

\* what the presets act on: the focus mode, the display's brightness and
\* Night Shift, the output volume and its mute state
Device(focus, brightness, nightShift, volume, muted) ==
    [focus |-> focus, brightness |-> brightness, nightShift |-> nightShift,
     volume |-> volume, muted |-> muted]

\* what a function of a device package returns and leaves the device in
Done(dev) == [err |-> << >>, dev |-> dev]

Failed(message, dev) == [err |-> message, dev |-> dev]

\* focus.Enable and focus.Disable; toolOk: the script runs
FocusEnable(dev, toolOk) ==
    IF toolOk THEN Done([dev EXCEPT !.focus = TRUE])
    ELSE Failed(<< "f", "a", "i", "l", "e", "d", " ", "t", "o", " ", "e", "n", "a", "b", "l", "e", " ", "f", "o", "c", "u", "s", " ", "m", "o", "d", "e" >>, dev)

FocusDisable(dev, toolOk) ==
    IF toolOk THEN Done([dev EXCEPT !.focus = FALSE])
    ELSE Failed(<< "f", "a", "i", "l", "e", "d", " ", "t", "o", " ", "d", "i", "s", "a", "b", "l", "e", " ", "f", "o", "c", "u", "s", " ", "m", "o", "d", "e" >>, dev)

\* display.SetBrightness
SetBrightness(level, dev, toolOk) ==
    IF level < 0 \/ level > 100 THEN Failed(<< "b", "r", "i", "g", "h", "t", "n", "e", "s", "s", " ", "m", "u", "s", "t", " ", "b", "e", " ", "b", "e", "t", "w", "e", "e", "n", " ", "0", " ", "a", "n", "d", " ", "1", "0", "0" >>, dev)
    ELSE IF toolOk THEN Done([dev EXCEPT !.brightness = level])
    ELSE Failed(<< "f", "a", "i", "l", "e", "d", " ", "t", "o", " ", "s", "e", "t", " ", "b", "r", "i", "g", "h", "t", "n", "e", "s", "s" >>, dev)

\* display.SetNightShift
SetNightShift(enable, dev, toolOk) ==
    IF toolOk THEN Done([dev EXCEPT !.nightShift = enable])
    ELSE Failed(<< "f", "a", "i", "l", "e", "d", " ", "t", "o", " ", "s", "e", "t", " ", "n", "i", "g", "h", "t", " ", "s", "h", "i", "f", "t" >>, dev)

\* audio.SetVolume
SetVolume(level, dev, toolOk) ==
    IF level < 0 \/ level > 100 THEN Failed(<< "v", "o", "l", "u", "m", "e", " ", "m", "u", "s", "t", " ", "b", "e", " ", "b", "e", "t", "w", "e", "e", "n", " ", "0", " ", "a", "n", "d", " ", "1", "0", "0" >>, dev)
    ELSE IF toolOk THEN Done([dev EXCEPT !.volume = level])
    ELSE Failed(<< "f", "a", "i", "l", "e", "d", " ", "t", "o", " ", "s", "e", "t", " ", "v", "o", "l", "u", "m", "e" >>, dev)

\* audio.SetMute
SetMute(mute, dev, toolOk) ==
    IF toolOk THEN Done([dev EXCEPT !.muted = mute])
    ELSE Failed(<< "f", "a", "i", "l", "e", "d", " ", "t", "o", " ", "s", "e", "t", " ", "m", "u", "t", "e" >>, dev)

\* audio.ToggleMute
ToggleMute(dev, toolOk) ==
    IF toolOk THEN SetMute(~dev.muted, dev, toolOk)
    ELSE Failed(<< "f", "a", "i", "l", "e", "d", " ", "t", "o", " ", "g", "e", "t", " ", "c", "u", "r", "r", "e", "n", "t", " ", "m", "u", "t", "e", " ", "s", "t", "a", "t", "e" >>, dev)

executeFocusAction(a, dev, toolOk) ==
    IF a.Command = << "o", "n" >> THEN FocusEnable(dev, toolOk)
    ELSE IF a.Command = << "o", "f", "f" >> THEN FocusDisable(dev, toolOk)
    ELSE Failed(<< "u", "n", "k", "n", "o", "w", "n", " ", "f", "o", "c", "u", "s", " ", "c", "o", "m", "m", "a", "n", "d", ":", " " >> \o a.Command, dev)

executeDisplayAction(a, dev, toolOk) ==
    IF a.Command = << "b", "r", "i", "g", "h", "t", "n", "e", "s", "s" >>
    THEN IF Len(a.Args) = 0 THEN Failed(<< "b", "r", "i", "g", "h", "t", "n", "e", "s", "s", " ", "l", "e", "v", "e", "l", " ", "r", "e", "q", "u", "i", "r", "e", "d" >>, dev)
         ELSE IF Sscanf(a.Args[1]).err # "" THEN Failed(<< "i", "n", "v", "a", "l", "i", "d", " ", "b", "r", "i", "g", "h", "t", "n", "e", "s", "s", " ", "l", "e", "v", "e", "l" >>, dev)
         ELSE SetBrightness(Sscanf(a.Args[1]).num, dev, toolOk)
    ELSE IF a.Command = << "n", "i", "g", "h", "t", "s", "h", "i", "f", "t" >>
    THEN IF Len(a.Args) = 0 THEN Failed(<< "n", "i", "g", "h", "t", "s", "h", "i", "f", "t", " ", "s", "t", "a", "t", "e", " ", "r", "e", "q", "u", "i", "r", "e", "d", " ", "(", "o", "n", "/", "o", "f", "f", ")" >>, dev)
         ELSE SetNightShift(a.Args[1] = << "o", "n" >>, dev, toolOk)
    ELSE Failed(<< "u", "n", "k", "n", "o", "w", "n", " ", "d", "i", "s", "p", "l", "a", "y", " ", "c", "o", "m", "m", "a", "n", "d", ":", " " >> \o a.Command, dev)

executeAudioAction(a, dev, toolOk) ==
    IF a.Command = << "v", "o", "l", "u", "m", "e" >>
    THEN IF Len(a.Args) = 0 THEN Failed(<< "v", "o", "l", "u", "m", "e", " ", "l", "e", "v", "e", "l", " ", "r", "e", "q", "u", "i", "r", "e", "d" >>, dev)
         ELSE IF Sscanf(a.Args[1]).err # "" THEN Failed(<< "i", "n", "v", "a", "l", "i", "d", " ", "v", "o", "l", "u", "m", "e", " ", "l", "e", "v", "e", "l" >>, dev)
         ELSE SetVolume(Sscanf(a.Args[1]).num, dev, toolOk)
    ELSE IF a.Command = << "m", "u", "t", "e" >>
    THEN IF Len(a.Args) = 0 THEN ToggleMute(dev, toolOk)
         ELSE SetMute(a.Args[1] = << "o", "n" >>, dev, toolOk)
    ELSE Failed(<< "u", "n", "k", "n", "o", "w", "n", " ", "a", "u", "d", "i", "o", " ", "c", "o", "m", "m", "a", "n", "d", ":", " " >> \o a.Command, dev)

\* executePowerAction; toolOk: power.GetEnergyHogs succeeds
executePowerAction(a, toolOk) ==
    IF a.Command = << "h", "o", "g", "s" >>
    THEN IF toolOk THEN Result(a, TRUE, << "T", "o", "p", " ", "e", "n", "e", "r", "g", "y", " ", "c", "o", "n", "s", "u", "m", "e", "r", "s", ":" >>)
         ELSE Result(a, FALSE, << "f", "a", "i", "l", "e", "d", " ", "t", "o", " ", "g", "e", "t", " ", "e", "n", "e", "r", "g", "y", " ", "h", "o", "g", "s" >>)
    ELSE Result(a, FALSE, << "u", "n", "k", "n", "o", "w", "n", " ", "p", "o", "w", "e", "r", " ", "c", "o", "m", "m", "a", "n", "d", ":", " " >> \o a.Command)

\* the Result of a device function's return
ResultOf(a, r) ==
    IF r.err # << >> THEN Result(a, FALSE, r.err)
    ELSE Result(a, TRUE, describeAction(a) \o << " ", "-", " ", "d", "o", "n", "e" >>)

\* executeAction on the device dev: its Result and the device afterwards
executeAction(a, dev, toolOk) ==
    IF a.Domain = << "f", "o", "c", "u", "s" >>
    THEN [result |-> ResultOf(a, executeFocusAction(a, dev, toolOk)),
          dev |-> executeFocusAction(a, dev, toolOk).dev]
    ELSE IF a.Domain = << "d", "i", "s", "p", "l", "a", "y" >>
    THEN [result |-> ResultOf(a, executeDisplayAction(a, dev, toolOk)),
          dev |-> executeDisplayAction(a, dev, toolOk).dev]
    ELSE IF a.Domain = << "a", "u", "d", "i", "o" >>
    THEN [result |-> ResultOf(a, executeAudioAction(a, dev, toolOk)),
          dev |-> executeAudioAction(a, dev, toolOk).dev]
    ELSE IF a.Domain = << "p", "o", "w", "e", "r" >>
    THEN [result |-> executePowerAction(a, toolOk), dev |-> dev]
    ELSE [result |-> Result(a, FALSE, << "u", "n", "k", "n", "o", "w", "n", " ", "d", "o", "m", "a", "i", "n", ":", " " >> \o a.Domain), dev |-> dev]

\* variant: the results are collected last action first
DryRunReversed(actions) ==
    [i \in 1..Len(actions) |->
        Result(actions[Len(actions) + 1 - i], TRUE, describeAction(actions[Len(actions) + 1 - i]))]

\* DryRun of a preset with these actions
DryRun(actions) == [i \in 1..Len(actions) |-> Result(actions[i], TRUE, describeAction(actions[i]))]

\* variant: the loop of Apply also ends after an action that failed
ApplyDoneAtFailure(results, actions) ==
    \/ Len(results) = Len(actions)
    \/ results # << >> /\ ~results[Len(results)].Success

\* the loop of Apply has gone through the actions
ApplyDone(results, actions) == Len(results) = Len(actions)

\* the actions of BuiltinPresets: deep-work, meeting, present, chill,
\* battery-saver
BuiltinPresets ==
    {<< Action(<< "f", "o", "c", "u", "s" >>, << "o", "n" >>, << << "d", "n", "d" >> >>),
       Action(<< "d", "i", "s", "p", "l", "a", "y" >>, << "b", "r", "i", "g", "h", "t", "n", "e", "s", "s" >>, << << "5", "0" >> >>),
       Action(<< "a", "u", "d", "i", "o" >>, << "m", "u", "t", "e" >>, << << "o", "n" >> >>) >>,
     << Action(<< "f", "o", "c", "u", "s" >>, << "o", "n" >>, << << "d", "n", "d" >> >>),
       Action(<< "a", "u", "d", "i", "o" >>, << "m", "u", "t", "e" >>, << << "o", "f", "f" >> >>) >>,
     << Action(<< "f", "o", "c", "u", "s" >>, << "o", "n" >>, << << "d", "n", "d" >> >>),
       Action(<< "d", "i", "s", "p", "l", "a", "y" >>, << "b", "r", "i", "g", "h", "t", "n", "e", "s", "s" >>, << << "1", "0", "0" >> >>) >>,
     << Action(<< "f", "o", "c", "u", "s" >>, << "o", "f", "f" >>, << >>),
       Action(<< "d", "i", "s", "p", "l", "a", "y" >>, << "n", "i", "g", "h", "t", "s", "h", "i", "f", "t" >>, << << "o", "n" >> >>),
       Action(<< "d", "i", "s", "p", "l", "a", "y" >>, << "b", "r", "i", "g", "h", "t", "n", "e", "s", "s" >>, << << "4", "0" >> >>),
       Action(<< "a", "u", "d", "i", "o" >>, << "v", "o", "l", "u", "m", "e" >>, << << "3", "0" >> >>) >>,
     << Action(<< "d", "i", "s", "p", "l", "a", "y" >>, << "b", "r", "i", "g", "h", "t", "n", "e", "s", "s" >>, << << "3", "0" >> >>),
       Action(<< "p", "o", "w", "e", "r" >>, << "h", "o", "g", "s" >>, << >>) >>}

\* actions of every domain, well-formed and not
ActionPool ==
    {Action(<< "f", "o", "c", "u", "s" >>, << "o", "n" >>, << << "d", "n", "d" >> >>),
     Action(<< "f", "o", "c", "u", "s" >>, << "o", "f", "f" >>, << >>),
     Action(<< "f", "o", "c", "u", "s" >>, << "t", "o", "g", "g", "l", "e" >>, << >>),
     Action(<< "d", "i", "s", "p", "l", "a", "y" >>, << "b", "r", "i", "g", "h", "t", "n", "e", "s", "s" >>, << << "5", "0" >> >>),
     Action(<< "d", "i", "s", "p", "l", "a", "y" >>, << "b", "r", "i", "g", "h", "t", "n", "e", "s", "s" >>, << >>),
     Action(<< "d", "i", "s", "p", "l", "a", "y" >>, << "b", "r", "i", "g", "h", "t", "n", "e", "s", "s" >>, << << "1", "5", "0" >> >>),
     Action(<< "d", "i", "s", "p", "l", "a", "y" >>, << "b", "r", "i", "g", "h", "t", "n", "e", "s", "s" >>, << << "m", "a", "x" >> >>),
     Action(<< "d", "i", "s", "p", "l", "a", "y" >>, << "n", "i", "g", "h", "t", "s", "h", "i", "f", "t" >>, << << "o", "n" >> >>),
     Action(<< "d", "i", "s", "p", "l", "a", "y" >>, << "n", "i", "g", "h", "t", "s", "h", "i", "f", "t" >>, << >>),
     Action(<< "a", "u", "d", "i", "o" >>, << "v", "o", "l", "u", "m", "e" >>, << << "3", "0" >> >>),
     Action(<< "a", "u", "d", "i", "o" >>, << "v", "o", "l", "u", "m", "e" >>, << << "-", "5" >> >>),
     Action(<< "a", "u", "d", "i", "o" >>, << "m", "u", "t", "e" >>, << << "o", "n" >> >>),
     Action(<< "a", "u", "d", "i", "o" >>, << "m", "u", "t", "e" >>, << >>),
     Action(<< "p", "o", "w", "e", "r" >>, << "h", "o", "g", "s" >>, << >>),
     Action(<< "p", "o", "w", "e", "r" >>, << "s", "l", "e", "e", "p" >>, << >>),
     Action(<< "n", "e", "t", "w", "o", "r", "k" >>, << "o", "f", "f" >>, << >>)}

\* the device before a preset command: focus and mute either way
Devices == {Device(f, 70, FALSE, 50, m) : f \in BOOLEAN, m \in BOOLEAN}

PresetInput(actions, dryRun) == [actions |-> actions, dryRun |-> dryRun]

NoResults(dev) == [results |-> << >>, dev |-> dev, executed |-> << >>]

\* the preset command before it runs, with or without --dry-run, on a
\* built-in preset or on a preset of up to MaxActions actions
PresetInit ==
    /\ HistIdle
    /\ now = 0
    /\ \E dryRun \in BOOLEAN :
          \/ \E actions \in BuiltinPresets : inp = PresetInput(actions, dryRun)
          \/ \E n \in 0..MaxActions :
                \E actions \in [1..n -> ActionPool] : inp = PresetInput(actions, dryRun)
    /\ \E dev \in Devices : out = NoResults(dev)
    /\ step = "start"

\* preset.DryRun(p)
PresetDryRun ==
    /\ step = "start"
    /\ inp.dryRun
    /\ out' = [out EXCEPT !.results = DryRun(inp.actions)]
    /\ step' = "done"
    /\ UNCHANGED << histVars, inp >>

\* one iteration of the loop of preset.Apply(p); executed lists the actions
\* executeAction was called for and whether the tool they ran succeeded
ApplyAction(toolOk) ==
    /\ step = "start"
    /\ ~inp.dryRun
    /\ ~ApplyDone(out.results, inp.actions)
    /\ LET i == Len(out.results) + 1
           r == executeAction(inp.actions[i], out.dev, toolOk)
       IN out' = [results |-> Append(out.results, r.result),
                  dev |-> r.dev,
                  executed |-> Append(out.executed, [index |-> i, toolOk |-> toolOk])]
    /\ UNCHANGED << histVars, inp, step >>

\* preset.Apply(p) returns
ApplyReturn ==
    /\ step = "start"
    /\ ~inp.dryRun
    /\ ApplyDone(out.results, inp.actions)
    /\ step' = "done"
    /\ UNCHANGED << histVars, inp, out >>

PresetNext ==
    \/ PresetDryRun
    \/ \E toolOk \in BOOLEAN : ApplyAction(toolOk)
    \/ ApplyReturn

PresetSpec == PresetInit /\ [][PresetNext]_vars

\* ----------------------------------------------------------- the dashboard
\* the fields of tui.Model that Update reads or writes: loaded stands for the
\* status fields (battery and the others) being set, err for err # nil
Model(width, showHelp, loaded, failed) ==
    [width |-> width, showHelp |-> showHelp, loaded |-> loaded, err |-> failed]

\* tui.New
New == Model(0, FALSE, FALSE, FALSE)

\* the messages of the program: tea.KeyMsg, tea.WindowSizeMsg, tickMsg and
\* statusMsg (ok: its err is nil)
KeyMsg(k) == [kind |-> "key", key |-> k, width |-> 0, ok |-> TRUE]

WindowSizeMsg(w) == [kind |-> "size", key |-> "", width |-> w, ok |-> TRUE]

TickMsg == [kind |-> "tick", key |-> "", width |-> 0, ok |-> TRUE]

StatusMsg(ok) == [kind |-> "status", key |-> "", width |-> 0, ok |-> ok]

\* what Update returns: the model and the command, one of nil, tea.Quit,
\* fetchStatus() and tea.Batch(fetchStatus(), tickCmd())
Return(m, cmd) == [m |-> m, cmd |-> cmd]

\* variant: the quit and refresh keys are looked at before the overlay
handleKeyOverlayLast(m, k) ==
    IF k \in {"q", "ctrl+c"} THEN Return(m, "quit")
    ELSE IF k = "r" THEN Return(m, "fetch")
    ELSE IF m.showHelp THEN Return([m EXCEPT !.showHelp = FALSE], "nil")
    ELSE IF k = "?" THEN Return([m EXCEPT !.showHelp = TRUE], "nil")
    ELSE Return(m, "nil")

\* Model.handleKey with the bindings of newKeyMap
handleKey(m, k) ==
    IF m.showHelp THEN Return([m EXCEPT !.showHelp = FALSE], "nil")
    ELSE IF k \in {"q", "ctrl+c"} THEN Return(m, "quit")
    ELSE IF k = "r" THEN Return(m, "fetch")
    ELSE IF k = "?" THEN Return([m EXCEPT !.showHelp = TRUE], "nil")
    ELSE Return(m, "nil")

\* variant: the window size message starts a tick as well
UpdateSizeTicks(m, msg) ==
    CASE msg.kind = "size" -> Return([m EXCEPT !.width = msg.width], "tick")
      [] msg.kind = "tick" -> Return(m, "fetch+tick")
      [] msg.kind = "status" ->
            IF ~msg.ok THEN Return([m EXCEPT !.err = TRUE], "nil")
            ELSE Return([m EXCEPT !.loaded = TRUE, !.err = FALSE], "nil")
      [] msg.kind = "key" -> handleKey(m, msg.key)

\* Model.Update
Update(m, msg) ==
    CASE msg.kind = "size" -> Return([m EXCEPT !.width = msg.width], "nil")
      [] msg.kind = "tick" -> Return(m, "fetch+tick")
      [] msg.kind = "status" ->
            IF ~msg.ok THEN Return([m EXCEPT !.err = TRUE], "nil")
            ELSE Return([m EXCEPT !.loaded = TRUE, !.err = FALSE], "nil")
      [] msg.kind = "key" -> handleKey(m, msg.key)

\* Model.View: what the screen shows
View(m) ==
    IF m.width = 0 THEN "loading" ELSE IF m.showHelp THEN "help" ELSE "dashboard"

\* the running program: its model, the timers of tickCmd that have not fired,
\* the tick messages not yet handed to Update, the fetchStatus commands that
\* run, and the last message handed to Update with the command it returned
Program(m, timers, ticks, fetches, msg, cmd) ==
    [m |-> m, timers |-> timers, ticks |-> ticks, fetches |-> fetches,
     msg |-> msg, cmd |-> cmd]

\* the program hands msg to Update and starts the command it returns
Handle(prog, msg) ==
    LET r == Update(prog.m, msg)
    IN Program(r.m,
               IF r.cmd \in {"tick", "fetch+tick"} THEN prog.timers + 1 ELSE prog.timers,
               prog.ticks,
               IF r.cmd \in {"fetch", "fetch+tick"} THEN prog.fetches + 1 ELSE prog.fetches,
               msg, r.cmd)

Keys == {"q", "ctrl+c", "r", "?", "x"}

Widths == {80, 120}

\* the program after Model.Init, whose command is a fetch and a tick
TuiInit ==
    /\ HistIdle
    /\ now = 0
    /\ inp = << >>
    /\ out = Program(New, 1, 0, 1, [kind |-> "init", key |-> "", width |-> 0, ok |-> TRUE],
                     "fetch+tick")
    /\ step = "running"

\* msg is handled by the program prog; tea.Quit ends the program
Deliver(prog, msg) ==
    /\ step = "running"
    /\ Handle(prog, msg).fetches <= MaxFetches
    /\ out' = Handle(prog, msg)
    /\ step' = IF Handle(prog, msg).cmd = "quit" THEN "quit" ELSE "running"
    /\ UNCHANGED << histVars, inp >>

\* a key is pressed
KeyPress(k) ==
    /\ k \in Keys
    /\ Deliver(out, KeyMsg(k))

\* the terminal reports its size
Resize(w) ==
    /\ w \in Widths
    /\ Deliver(out, WindowSizeMsg(w))

\* a timer of tickCmd fires: its tickMsg is on its way to Update
TickFires ==
    /\ step = "running"
    /\ out.timers > 0
    /\ out' = [out EXCEPT !.timers = @ - 1, !.ticks = @ + 1]
    /\ UNCHANGED << histVars, inp, step >>

\* a tickMsg reaches Update
TickArrives ==
    /\ out.ticks > 0
    /\ Deliver([out EXCEPT !.ticks = @ - 1], TickMsg)

\* a fetchStatus command ends and its statusMsg reaches Update
StatusArrives(ok) ==
    /\ out.fetches > 0
    /\ Deliver([out EXCEPT !.fetches = @ - 1], StatusMsg(ok))

TuiNext ==
    \/ \E k \in Keys : KeyPress(k)
    \/ \E w \in Widths : Resize(w)
    \/ TickFires
    \/ TickArrives
    \/ \E ok \in BOOLEAN : StatusArrives(ok)

TuiSpec == TuiInit /\ [][TuiNext]_vars

\* ------------------------------------------------------------------ claims
\* what a reader of store st finds persisted
Persisted(st) == LoadHistory(fs[historyPath(st)]).snapshots

\* the same, after the step
PersistedNext(st) == LoadHistory(fs'[historyPath(st)]).snapshots

\* the last n elements of s, oldest first
LastN(s, n) == [i \in 1..n |-> s[Len(s) - n + i]]

\* what a history of entries looks like once at most MaxHistoryEntries of
\* its newest entries are kept
Newest(entries) ==
    IF Len(entries) <= MaxHistoryEntries THEN entries ELSE LastN(entries, MaxHistoryEntries)

\* process p's SaveHistory returns nil on this step
SaveReturns(p) == pc[p] = "write" /\ pc'[p] = "idle" /\ ret'[p].status = "ok"

\* no other process has written the file since p opened it
Undisturbed(p) == fs[historyPath(store[p])] = FileOf(<< >>)

\* C1: the persisted history of either store never holds more than
\* MaxHistoryEntries entries, and a SaveHistory that is given more persists
\* exactly the last MaxHistoryEntries of them, oldest first.
C1_HistoryBounded ==
    /\ [](\A st \in Stores : Len(Persisted(st)) <= MaxHistoryEntries)
    /\ [][\A p \in Procs :
            (SaveReturns(p) /\ Len(toSave[p]) > MaxHistoryEntries)
            => PersistedNext(store[p]) = LastN(toSave[p], MaxHistoryEntries)]_vars

\* a SaveHistory of more than MaxHistoryEntries entries has returned and the
\* oldest entry it dropped differs from the oldest it kept
C1_Witness ==
    \E p \in Procs :
        /\ op[p] = "save" /\ pc[p] = "idle" /\ ret[p].status = "ok"
        /\ Len(toSave[p]) > MaxHistoryEntries
        /\ toSave[p][1] # toSave[p][Len(toSave[p]) - MaxHistoryEntries + 1]
        /\ Persisted(store[p]) = LastN(toSave[p], MaxHistoryEntries)

\* process p's RecordSnapshot passes its LoadHistory call on this step
RecordLoads(p) == pc[p] = "load" /\ pc'[p] = "save"

\* C2: a RecordSnapshot that returns success returns the snapshot it
\* captured and leaves persisted the history it loaded followed by that
\* snapshot as the last entry, cut to the newest MaxHistoryEntries; a load
\* error is never returned, the call goes on with an empty history and
\* persists exactly the new snapshot.
C2_RecordAppends ==
    /\ [][\A p \in Procs :
            RecordLoads(p)
            => LET r == LoadHistory(fs[historyPath(store[p])])
               IN /\ (r.err = "") => existing'[p] = r.snapshots
                  /\ (r.err # "") => (err'[p] # "" /\ existing'[p] = << >>)]_vars
    /\ [][\A p \in Procs :
            (SaveReturns(p) /\ op[p] = "record" /\ Undisturbed(p))
            => /\ ret'[p].snap = << snap[p] >>
               /\ LoadHistory(fs'[historyPath(store[p])]).err = ""
               /\ PersistedNext(store[p]) = Newest(Append(existing[p], snap[p]))
               /\ (err[p] # "") => PersistedNext(store[p]) = << snap[p] >>]_vars
    /\ [](\A p \in Procs :
            (op[p] = "record" /\ ret[p].status = "err")
            => ret[p].cause \in {"capture", "storage"})

\* a RecordSnapshot on a full history has returned: the oldest entry is
\* gone, the others have moved up and the new snapshot is last
C2_Witness ==
    \E p \in Procs :
        /\ op[p] = "record" /\ pc[p] = "idle" /\ ret[p].status = "ok"
        /\ Len(existing[p]) = MaxHistoryEntries
        /\ existing[p][1] # existing[p][2]
        /\ ret[p].snap = << snap[p] >>
        /\ Persisted(store[p])
             = Append(LastN(existing[p], MaxHistoryEntries - 1), snap[p])

\* a RecordSnapshot that found an unparsable file has returned success
C2_WitnessCorrupt ==
    \E p \in Procs :
        /\ op[p] = "record" /\ pc[p] = "idle" /\ ret[p].status = "ok"
        /\ err[p] = "parse"
        /\ Persisted(store[p]) = << snap[p] >>

\* both processes have returned from a successful RecordSnapshot on the
\* same store
BothRecorded(p, q) ==
    /\ p # q
    /\ store[p] = store[q]
    /\ \A r \in {p, q} : op[r] = "record" /\ pc[r] = "idle" /\ ret[r].status = "ok"

\* C3: two RecordSnapshot calls on one file run without mutual exclusion;
\* when both loaded the same history and both return success, the file
\* never holds both new snapshots: what can be read back is one whole save,
\* the loaded history plus one of the two snapshots.
C3_LostUpdate ==
    \A p, q \in Procs :
        (BothRecorded(p, q) /\ existing[p] = existing[q]
           /\ Len(existing[p]) + 2 <= MaxHistoryEntries)
        => /\ Len(Persisted(store[p])) <= Len(existing[p]) + 1
           /\ (LoadHistory(fs[historyPath(store[p])]).err = "")
              => Persisted(store[p]) \in {Append(existing[r], snap[r]) : r \in {p, q}}

\* the interleaving has happened: both calls returned success, p's snapshot
\* is not in the file and q's is
C3_Witness ==
    \E p, q \in Procs :
        /\ BothRecorded(p, q)
        /\ existing[p] = existing[q]
        /\ Len(existing[p]) >= 1
        /\ snap[p] # snap[q]
        /\ Persisted(store[p]) = Append(existing[q], snap[q])
        /\ \A i \in 1..Len(Persisted(store[p])) : Persisted(store[p])[i] # snap[p]

\* process p calls LoadHistory on this step
LoadCalled(p) == op'[p] = "load" /\ calls' = calls + 1

\* the text is what marshalling some list of snapshots writes
WellFormed(text) ==
    /\ Len(text) >= 2
    /\ MarshalIndent([i \in 1..(Len(text) - 2) |-> DecodeSnapshot(text[i + 1])], FALSE) = text

\* C4: LoadHistory returns an empty history and no error for an absent
\* file, the stored snapshots in stored order for a well-formed array, an
\* error and no entries for malformed content; it never changes the file.
C4_LoadCases ==
    /\ [][\A p \in Procs :
            LoadCalled(p)
            => LET f == fs[historyPath(store'[p])]
               IN /\ fs' = fs
                  /\ (~f.exists) => ret'[p] = OkRet(<< >>, << >>)
                  /\ (f.exists /\ WellFormed(f.bytes))
                     => /\ ret'[p].status = "ok"
                        /\ Len(ret'[p].snapshots) = Len(f.bytes) - 2
                        /\ \A i \in 1..(Len(f.bytes) - 2) :
                              EncodeSnapshot(ret'[p].snapshots[i]) = f.bytes[i + 1]
                  /\ (f.exists /\ ~WellFormed(f.bytes) /\ f.bytes # << Tok("null") >>)
                     => /\ ret'[p].status = "err"
                        /\ ret'[p].snapshots = << >>]_vars
    /\ [][\A p \in Procs : RecordLoads(p) => fs' = fs]_vars

\* LoadHistory has failed on a malformed file, which is still there
C4_Witness ==
    \E p \in Procs :
        /\ op[p] = "load" /\ ret[p].status = "err" /\ ret[p].snapshots = << >>
        /\ fs[historyPath(store[p])].exists
        /\ fs[historyPath(store[p])].bytes # << >>
        /\ ~WellFormed(fs[historyPath(store[p])].bytes)

C6_CaptureFailure ==
    /\ [][\A p \in Procs :
            (calls' = calls + 1 /\ err'[p] = "capture")
            => /\ fs' = fs
               /\ pc'[p] = "idle"
               /\ ret'[p] = ErrRet("capture")]_vars
    /\ [](\A p \in Procs : err[p] = "capture" => (pc[p] = "idle" /\ ret[p].snap = << >>))

\* a RecordSnapshot whose capture failed has returned and the history it
\* would have appended to is still there
C6_Witness ==
    \E p \in Procs :
        /\ op[p] = "record" /\ err[p] = "capture" /\ ret[p] = ErrRet("capture")
        /\ Persisted(store[p]) # << >>

\* the positions of entries that are stamped strictly after clock - since
Recent(entries, since, clock) ==
    {i \in 1..Len(entries) : entries[i].Timestamp > clock - since}

\* result holds exactly the entries at the positions in keep, in their order
IsSelection(result, entries, keep) ==
    /\ Len(result) = Cardinality(keep)
    /\ \A i \in keep : result[Cardinality({j \in keep : j <= i})] = entries[i]

\* C7: FilterHistory(entries, since) returns exactly the entries stamped
\* strictly after (clock reading at the call - since), in their original
\* order; an entry stamped exactly at the cutoff is left out.
C7_FilterExact ==
    /\ (step \in {"half", "done"}
          => IsSelection(out.narrow, inp.entries, Recent(inp.entries, inp.since, out.at)))
    /\ (step = "done"
          => IsSelection(out.wide, inp.entries, Recent(inp.entries, inp.wider, out.atWide)))

\* a call has kept one entry and dropped one stamped exactly at the cutoff
\* and an older one, although the newest entry is far from the clock
C7_Witness ==
    /\ step = "half"
    /\ Len(inp.entries) = 3
    /\ inp.since > 0
    /\ inp.entries[1].Timestamp = out.at - inp.since
    /\ inp.entries[2].Timestamp > out.at - inp.since
    /\ inp.entries[3].Timestamp < out.at - inp.since
    /\ out.narrow = << inp.entries[2] >>

\* a is a subsequence of b: scan b for the elements of a in turn
RECURSIVE SubseqFrom(_, _, _, _)
SubseqFrom(a, b, i, j) ==
    IF i > Len(a) THEN TRUE
    ELSE IF j > Len(b) THEN FALSE
    ELSE IF a[i] = b[j] THEN SubseqFrom(a, b, i + 1, j + 1)
    ELSE SubseqFrom(a, b, i, j + 1)

\* C8: over one history and one clock reading, the result for a window is a
\* subsequence of the result for any window at least as wide.
C8_FilterMonotonic ==
    (step = "done" /\ out.at = out.atWide)
    => /\ Len(out.narrow) <= Len(out.wide)
       /\ SubseqFrom(out.narrow, out.wide, 1, 1)

\* the wider window has returned strictly more of the same history
C8_Witness ==
    /\ step = "done" /\ out.at = out.atWide
    /\ inp.since < inp.wider
    /\ Len(out.narrow) >= 1
    /\ Len(out.narrow) < Len(out.wide)

\* what the de-duplicator was given
DedupInput == TypeFiltered(inp.events, inp.typeFilter)

\* the events of s are of one category and each is at most the window after
\* the one before it
IsChain(s) ==
    \A i \in 1..(Len(s) - 1) :
        /\ s[i + 1].Type = s[i].Type
        /\ s[i + 1].Timestamp >= s[i].Timestamp
        /\ s[i + 1].Timestamp - s[i].Timestamp <= DedupWindow

\* C9: N >= 1 consecutive events of one category, each at most the window
\* after the one before, come out as exactly one event with count N, also
\* when the last is more than the window after the first and when a gap
\* equals the window.
C9_ChainMerged ==
    (step = "done" /\ Len(DedupInput) >= 1 /\ IsChain(DedupInput))
    => /\ Len(out) = 1
       /\ out[1].Count = Len(DedupInput)
       /\ out[1].Type = DedupInput[1].Type

\* three events with gaps equal to the window, the last one two windows
\* after the first, have come out as one event with count 3
C9_Witness ==
    /\ step = "done"
    /\ Len(DedupInput) = 3
    /\ IsChain(DedupInput)
    /\ DedupInput[2].Timestamp - DedupInput[1].Timestamp = DedupWindow
    /\ DedupInput[3].Timestamp - DedupInput[1].Timestamp > DedupWindow
    /\ Len(out) = 1
    /\ out[1].Count = 3

\* C10: two events that differ in category, whatever their spacing, or two
\* events of one category more than the window apart, come out as two
\* events with count 1 each, in input order.
C10_NoFalseMerge ==
    (step = "done" /\ Len(DedupInput) = 2
       /\ \/ DedupInput[1].Type # DedupInput[2].Type
          \/ DedupInput[2].Timestamp - DedupInput[1].Timestamp > DedupWindow)
    => /\ Len(out) = 2
       /\ \A i \in 1..2 :
             /\ out[i].Count = 1
             /\ out[i].Type = DedupInput[i].Type
             /\ out[i].Timestamp = DedupInput[i].Timestamp
             /\ out[i].Detail = DedupInput[i].Detail

\* two events of one category, the second just over the window after the
\* first, have come out as two events
C10_Witness ==
    /\ step = "done"
    /\ Len(DedupInput) = 2
    /\ DedupInput[1].Type = DedupInput[2].Type
    /\ DedupInput[2].Timestamp - DedupInput[1].Timestamp = DedupWindow + 10
    /\ Len(out) = 2
    /\ out[1].Count = 1 /\ out[2].Count = 1

\* the sum of the counts of the first j events of s
RECURSIVE SumCounts(_, _)
SumCounts(s, j) == IF j = 0 THEN 0 ELSE SumCounts(s, j - 1) + s[j].Count

\* C11: the output cuts the input into consecutive groups: every count is at
\* least 1, the counts add up to the input's length, the j-th output event
\* is the first event of the j-th group and every event of that group has
\* its category; the output is no longer than the input and an empty input
\* gives an empty output.
C11_Partition ==
    step = "done"
    => /\ Len(out) <= Len(DedupInput)
       /\ (DedupInput = << >>) => (out = << >>)
       /\ \A j \in 1..Len(out) : out[j].Count >= 1
       /\ SumCounts(out, Len(out)) = Len(DedupInput)
       /\ \A j \in 1..Len(out) :
             LET first == SumCounts(out, j - 1) + 1
             IN /\ out[j] = [DedupInput[first] EXCEPT !.Count = out[j].Count]
                /\ \A i \in first..(first + out[j].Count - 1) :
                      DedupInput[i].Type = out[j].Type

\* three events have come out as a group of two followed by a group of one
C11_Witness ==
    /\ step = "done"
    /\ Len(DedupInput) = 3
    /\ Len(out) = 2
    /\ out[1].Count = 2
    /\ out[2].Count = 1

\* the part of a --last value before its last character
NumStr(s) == SubSeq(s, 1, Len(s) - 1)

\* s is a decimal numeral of a positive integer followed by one of m, h, d
PositiveNumeral(s) ==
    /\ Len(s) >= 2
    /\ s[Len(s)] \in Units
    /\ \A i \in 1..(Len(s) - 1) : IsDigit(s[i])
    /\ \E i \in 1..(Len(s) - 1) : s[i] # "0"

\* the integer a numeral of at most nine significant digits stands for
NumeralValue(ds) == DecimalValue(SubSeq(ds, SkipZeros(ds, 1), Len(ds)), 1, 0)

\* C12 as stated: for every positive n, the numeral of n followed by m, h or
\* d parses, and to exactly n minutes, n hours or n times 24 hours.
C12_EveryPositiveN ==
    (step = "done" /\ PositiveNumeral(inp.text))
    => /\ out.err = ""
       /\ out.d = Duration(NumeralValue(NumStr(inp.text)) * UnitMinutes(inp.text[Len(inp.text)]),
                           0, 0)

\* the index of the first digit of s, Len(s) + 1 when it has none
RECURSIVE FirstDigit(_, _)
FirstDigit(s, i) == IF i <= Len(s) /\ ~IsDigit(s[i]) THEN FirstDigit(s, i + 1) ELSE i

\* no integer can be read from s: it has no digit, or something other than
\* spaces and then at most one sign comes before its first digit
Unreadable(s) ==
    LET f == FirstDigit(s, 1)
    IN \/ f > Len(s)
       \/ \E i \in 1..(f - 1) : ~IsSpace(s[i]) /\ ~(i = f - 1 /\ s[i] \in {"+", "-"})

\* the integer read from s is zero or negative
NonPositive(s) ==
    LET f == FirstDigit(s, 1)
    IN /\ ~Unreadable(s)
       /\ \/ f > 1 /\ s[f - 1] = "-"
          \/ \A i \in f..(ScanNumber(s, f) - 1) : s[i] = "0"

\* C13: ParseDuration returns an error and the zero duration, never a
\* default, when the input has fewer than 2 characters, when no integer can
\* be read from its numeric part, when that integer is not positive, and
\* when the last character is not m, h or d.
C13_Fails ==
    (step = "done"
       /\ \/ Len(inp.text) < 2
          \/ Unreadable(NumStr(inp.text))
          \/ NonPositive(NumStr(inp.text))
          \/ inp.text[Len(inp.text)] \notin Units)
    => (out.err # "" /\ out.d = ZeroDuration)

\* "10s" has been refused for its unit
C13_Witness ==
    /\ step = "done"
    /\ inp.text = << "1", "0", "s" >>
    /\ out.err = "unsupported duration unit"
    /\ out.d = ZeroDuration

\* C14 as stated: an input whose part before the last character is not all
\* decimal digits fails.
C14_RejectsImpure ==
    (step = "done" /\ Len(inp.text) >= 2
       /\ \E i \in 1..(Len(inp.text) - 1) : ~IsDigit(inp.text[i]))
    => out.err # ""


\* ---- helpers of the claims about the log classifier
Parsed == step = "parsed"

\* the text of a line after its timestamp
Remainder(l) == l.prefix \o l.message

\* the categories in the order the classifier is said to test them
CategoryOrder ==
    << EventWake, EventSleep, EventLidOpen, EventLidClose, EventThermal, EventPowerSource >>

\* the lower-cased text satisfies the predicate of the category
GroupMatches(type, lower) ==
    CASE type = EventWake -> ContainsAny(lower, WakeKeywords)
      [] type = EventSleep -> ContainsAny(lower, SleepKeywords)
      [] type = EventLidOpen -> ContainsAny(lower, LidOpenKeywords)
      [] type = EventLidClose -> ContainsAny(lower, LidCloseKeywords)
      [] type = EventThermal ->
            /\ Contains(lower, << "t", "h", "e", "r", "m", "a", "l" >>)
            /\ Contains(lower, << "t", "h", "r", "o", "t", "t", "l" >>) \/ Contains(lower, << "p", "r", "e", "s", "s", "u", "r", "e" >>)
      [] type = EventPowerSource -> ContainsAny(lower, PowerSourceKeywords)

\* the positions in CategoryOrder of the categories the line matches
Matching(l) == {i \in 1..Len(CategoryOrder) : GroupMatches(CategoryOrder[i], ToLower(Remainder(l)))}

\* a timestamp with fractional seconds that names a real instant
FractionalStamp(stamp) == stamp.frac /\ stamp # BadStamp

\* C15: the category of a line's event is the earliest, in the order wake,
\* sleep, lid_open, lid_close, thermal_throttle, power_source_change, of the
\* categories whose predicate the line satisfies (thermal_throttle needing
\* "thermal" together with "throttl" or "pressure"); a line with a
\* fractional-second timestamp gives an event exactly when it satisfies some
\* predicate; "Wake Reason: EC.LidOpen" is wake and a line naming both
\* entering sleep and the clamshell is sleep.
C15_FirstMatch ==
    Parsed /\ Len(inp.lines) = 1
    => LET l == inp.lines[1]
       IN /\ \A k \in 1..Len(out.events) :
                /\ Matching(l) # {}
                /\ \A i \in Matching(l) :
                      (\A j \in Matching(l) : i <= j) => out.events[k].Type = CategoryOrder[i]
          /\ FractionalStamp(l.stamp) => (out.events # << >> <=> Matching(l) # {})
          /\ (FractionalStamp(l.stamp) /\ l.message = << "W", "a", "k", "e", " ", "R", "e", "a", "s", "o", "n", ":", " ", "E", "C", ".", "L", "i", "d", "O", "p", "e", "n" >>)
                => out.events[1].Type = EventWake
          /\ (FractionalStamp(l.stamp) /\ l.message = << "E", "n", "t", "e", "r", "i", "n", "g", " ", "S", "l", "e", "e", "p", " ", "C", "l", "a", "m", "s", "h", "e", "l", "l" >>)
                => out.events[1].Type = EventSleep
          /\ (FractionalStamp(l.stamp) /\ Remainder(l) = << "T", "h", "e", "r", "m", "a", "l" >>) => out.events = << >>
          /\ (FractionalStamp(l.stamp) /\ Remainder(l) = << "T", "h", "e", "r", "m", "a", "l", " ", "p", "r", "e", "s", "s", "u", "r", "e" >>)
                => out.events[1].Type = EventThermal

\* a line that matches the wake group and the lid_open group was classified
C15_Witness ==
    /\ step = "parsed"
    /\ Len(inp.lines) = 1
    /\ inp.lines[1].message = << "W", "a", "k", "e", " ", "R", "e", "a", "s", "o", "n", ":", " ", "E", "C", ".", "L", "i", "d", "O", "p", "e", "n" >>
    /\ {1, 3} \subseteq Matching(inp.lines[1])
    /\ Len(out.events) = 1
    /\ out.events[1].Type = EventWake

\* what the log of the one line l gives
Contribution(l) == parseLogOutput(LogText(<< l >>))

RECURSIVE Contributions(_)
Contributions(ls) ==
    IF ls = << >> THEN << >> ELSE Contribution(Head(ls)) \o Contributions(Tail(ls))

\* C16: the events of a log are, in line order, what each line gives when it
\* is the only line; a line gives at most one event; a line with no
\* timestamp, with a timestamp that names no instant, or satisfying no
\* category predicate gives none, and the parse still completes.
C16_PerLine ==
    Parsed
    => /\ out.events = Contributions(inp.lines)
       /\ \A i \in 1..Len(inp.lines) :
             LET l == inp.lines[i]
             IN /\ Len(Contribution(l)) <= 1
                /\ (l.stamp \in {NoStamp, BadStamp} \/ Matching(l) = {}) => Contribution(l) = << >>

\* a line without a timestamp was skipped and the line after it gave its event
C16_Witness ==
    /\ step = "parsed"
    /\ Len(inp.lines) = 2
    /\ inp.lines[1].stamp = NoStamp
    /\ Matching(inp.lines[1]) # {}
    /\ Len(out.events) = 1
    /\ out.events = Contribution(inp.lines[2])

\* C17: a line that starts with a timestamp of any of the six shapes and
\* whose remainder satisfies a category predicate gives one event, at the
\* instant the timestamp names.
C17_SixShapes ==
    (Parsed /\ Len(inp.lines) = 1 /\ inp.lines[1].stamp \in SixShapes(45)
        /\ Matching(inp.lines[1]) # {})
    => /\ Len(out.events) = 1
       /\ out.events[1].Timestamp = Time(inp.lines[1].stamp.unix, inp.lines[1].stamp.nsec)

\* C18: the detail of the event of a compact-style line, whose remainder is
\* level, process, subsystem and message, is the message.
C18_DetailIsMessage ==
    (Parsed /\ Len(inp.lines) = 1 /\ inp.lines[1].prefix = << "D", "f", " ", "p", "o", "w", "e", "r", "d", "[", "1", ":", "1", "]", " ", "[", "x", "]", " " >>
        /\ inp.lines[1].message \in Messages)
    => \A k \in 1..Len(out.events) : out.events[k].Detail = inp.lines[1].message

\* C19: the detail of every event has at least one character and at most
\* 200 characters and the three of the ellipsis.
C19_DetailBounded ==
    \A k \in 1..Len(out.events) :
        /\ Len(out.events[k].Detail) >= 1
        /\ Len(out.events[k].Detail) <= 200 + 3

Vocabulary ==
    {"wake", "sleep", "lid_open", "lid_close", "thermal_throttle", "power_source_change"}

\* C20: the category of every event the classifier gives, and of every event
\* the command shows after de-duplication, is one of wake, sleep, lid_open,
\* lid_close, thermal_throttle, power_source_change.
C20_Vocabulary ==
    /\ \A k \in 1..Len(out.events) : out.events[k].Type \in Vocabulary
    /\ \A k \in 1..Len(out.shown) : out.shown[k].Type \in Vocabulary

\* a log with a line of no category was parsed and de-duplicated
C20_Witness ==
    /\ step = "done"
    /\ \E i \in 1..Len(inp.lines) :
          FractionalStamp(inp.lines[i].stamp) /\ Matching(inp.lines[i]) = {}
    /\ out.events # << >>
    /\ out.shown # << >>


\* the in-memory state of the call process p runs
Locals(p) ==
    << pc[p], op[p], store[p], snap[p], existing[p], toSave[p], nilArg[p], data[p], err[p],
       ret[p] >>

\* C21: whenever the persisted file of one package changes, the step is a
\* step of a save (inside SaveHistory, called directly or by RecordSnapshot)
\* of that package: the file of the other package stays as it was and no
\* other process's in-memory state changes.
C21_Independent ==
    [][\A st \in Stores :
          fs'[historyPath(st)] # fs[historyPath(st)]
          => /\ \A other \in Stores \ {st} : fs'[historyPath(other)] = fs[historyPath(other)]
             /\ \E p \in Procs :
                   /\ store[p] = st
                   /\ pc[p] \in {"save", "write"}
                   /\ Locals(p)' # Locals(p)
                   /\ \A q \in Procs \ {p} : Locals(q)' = Locals(q)]_vars

\* a power recording and a disk recording both finished, each in its own file
C21_Witness ==
    /\ store = [p \in Procs |-> IF p = "p1" THEN "power" ELSE "disk"]
    /\ \A p \in Procs : pc[p] = "idle" /\ op[p] = "record" /\ ret[p].status = "ok"
    /\ Persisted("disk") = << Snapshot(0, MaxValue), snap["p2"] >>
    /\ snap["p1"] # snap["p2"]
    /\ Len(Persisted("power")) >= 1
    /\ Persisted("power")[Len(Persisted("power"))] = snap["p1"]
    /\ \A i \in 1..Len(Persisted("power")) : Persisted("power")[i] # snap["p2"]


\* ---- helpers of the claim about the history commands
\* the history file of the command's package
HistoryFile == fs[historyPath(store[Caller])]

\* the loaded history
Loaded == LoadHistory(HistoryFile).snapshots

\* the load succeeded
LoadOk == LoadHistory(HistoryFile).err = ""

\* the smaller of two numbers
Min(a, b) == IF a <= b THEN a ELSE b

\* the --last value does not parse
Unparsable == inp.last # << >> /\ ParseDuration(inp.last).err # ""

\* C22 as stated: after a successful load, without --last the last
\* min(20, n) entries are shown, with a --last that parses the filtered
\* history is shown uncapped, and a --last that does not parse is an error
\* with nothing shown.
C22_Display ==
    (step = "done" /\ LoadOk)
    => /\ inp.last = << >> => out.shown = LastN(Loaded, Min(DefaultHistoryCount, Len(Loaded)))
       /\ (inp.last # << >> /\ ~Unparsable)
             => out.shown = FilterHistory(Loaded, SinceTicks(ParseDuration(inp.last).d), now)
       /\ Unparsable => out.status = "error" /\ out.shown = << >>

\* C22, amended: the same, except that a --last that does not parse is an
\* error only when a history was loaded; when there is no history yet (no
\* file, or null) the command prints its notice and succeeds without looking
\* at --last.
C22_DisplayLoaded ==
    (step = "done" /\ LoadOk)
    => /\ inp.last = << >> => out.shown = LastN(Loaded, Min(DefaultHistoryCount, Len(Loaded)))
       /\ (inp.last # << >> /\ ~Unparsable)
             => out.shown = FilterHistory(Loaded, SinceTicks(ParseDuration(inp.last).d), now)
       /\ (Unparsable /\ ~LoadedNil(HistoryFile))
             => out.status = "error" /\ out.cause = "invalid duration" /\ out.shown = << >>
       /\ (Unparsable /\ LoadedNil(HistoryFile))
             => out.status = "ok" /\ out.notice = "no history recorded yet" /\ out.shown = << >>

\* more than 20 entries were shown for --last 1h
C22_Witness ==
    /\ step = "done"
    /\ inp.last = << "1", "h" >>
    /\ Len(Loaded) > DefaultHistoryCount
    /\ out.shown = Loaded


\* ---- helpers of the claims about presets
\* results holds one Result for each of the first Len(results) actions, in
\* their order
ResultPerAction(results, actions) ==
    /\ Len(results) <= Len(actions)
    /\ \A i \in 1..Len(results) : results[i].Action = actions[i]

\* C23: a dry run changes nothing on the device and executes no action, and
\* what it returns is one Result for each action of the preset, in the
\* order of the actions, each a success with a message of at least one
\* character.
C23_DryRun ==
    [][inp.dryRun
       => /\ out'.dev = out.dev
          /\ out'.executed = << >>
          /\ step' = "done"
          /\ Len(out'.results) = Len(inp.actions)
          /\ ResultPerAction(out'.results, inp.actions)
          /\ \A i \in 1..Len(out'.results) :
                out'.results[i].Success /\ Len(out'.results[i].Message) >= 1]_vars

\* the dry run of the chill preset returned its four results
C23_Witness ==
    /\ step = "done"
    /\ inp.dryRun
    /\ Len(inp.actions) = 4
    /\ Len(out.results) = 4
    /\ out.results[2].Action = Action(<< "d", "i", "s", "p", "l", "a", "y" >>, << "n", "i", "g", "h", "t", "s", "h", "i", "f", "t" >>, << << "o", "n" >> >>)
    /\ out.dev \in Devices
    /\ out.executed = << >>

\* the actions of the pool that cannot succeed: unknown domain, unknown
\* command, missing argument, argument that is no number or out of range
IllFormed ==
    {Action(<< "f", "o", "c", "u", "s" >>, << "t", "o", "g", "g", "l", "e" >>, << >>),
     Action(<< "d", "i", "s", "p", "l", "a", "y" >>, << "b", "r", "i", "g", "h", "t", "n", "e", "s", "s" >>, << >>),
     Action(<< "d", "i", "s", "p", "l", "a", "y" >>, << "b", "r", "i", "g", "h", "t", "n", "e", "s", "s" >>, << << "1", "5", "0" >> >>),
     Action(<< "d", "i", "s", "p", "l", "a", "y" >>, << "b", "r", "i", "g", "h", "t", "n", "e", "s", "s" >>, << << "m", "a", "x" >> >>),
     Action(<< "d", "i", "s", "p", "l", "a", "y" >>, << "n", "i", "g", "h", "t", "s", "h", "i", "f", "t" >>, << >>),
     Action(<< "a", "u", "d", "i", "o" >>, << "v", "o", "l", "u", "m", "e" >>, << << "-", "5" >> >>),
     Action(<< "p", "o", "w", "e", "r" >>, << "s", "l", "e", "e", "p" >>, << >>),
     Action(<< "n", "e", "t", "w", "o", "r", "k" >>, << "o", "f", "f" >>, << >>)}

\* C24: at every point of Apply the actions executed so far are the first
\* ones of the preset, each once and in order, with one Result each in that
\* order; a Result is a success exactly when the action is well-formed and
\* its tool succeeded; Apply returns only after the last action, whatever
\* failed before.
C24_Apply ==
    ~inp.dryRun
    => /\ ResultPerAction(out.results, inp.actions)
       /\ Len(out.executed) = Len(out.results)
       /\ \A i \in 1..Len(out.executed) :
             /\ out.executed[i].index = i
             /\ out.results[i].Success
                <=> (out.executed[i].toolOk /\ inp.actions[i] \notin IllFormed)
       /\ step = "done" => Len(out.results) = Len(inp.actions)

\* Apply returned after an action that failed was followed by one that ran
C24_Witness ==
    /\ step = "done"
    /\ ~inp.dryRun
    /\ Len(out.results) = 2
    /\ inp.actions[1] \in IllFormed
    /\ ~out.results[1].Success
    /\ out.results[2].Success
    /\ out.dev \notin Devices


\* the step hands a key message to Update
KeyStep == step = "running" /\ out'.msg.kind = "key" /\ out' = Handle(out, out'.msg)

\* C25: while the help overlay is shown a key press of any kind, q, ctrl+c
\* and r included, only hides the overlay: the program does not quit and no
\* status fetch starts; a quit or refresh key takes effect only when the
\* overlay is hidden.
C25_HelpSwallowsKey ==
    [][KeyStep =>
          /\ out.m.showHelp
             => /\ out'.m = [out.m EXCEPT !.showHelp = FALSE]
                /\ step' = "running"
                /\ out'.cmd = "nil"
                /\ out'.fetches = out.fetches
                /\ out'.timers = out.timers
          /\ (step' = "quit" \/ out'.fetches > out.fetches) => ~out.m.showHelp
          /\ (~out.m.showHelp /\ out'.msg.key \in {"q", "ctrl+c"}) => step' = "quit"
          /\ (~out.m.showHelp /\ out'.msg.key = "r") => out'.fetches = out.fetches + 1]_vars

\* the overlay was on the screen and the q key has just hidden it
C25_Witness ==
    /\ step = "running"
    /\ out.msg = KeyMsg("q")
    /\ out.cmd = "nil"
    /\ View(out.m) = "dashboard"
    /\ out.m.loaded


\* the step is a timer of tickCmd that fires
TimerStep == out' = [out EXCEPT !.timers = @ - 1, !.ticks = @ + 1]

\* the ticks that are pending: timers that run and tick messages on their way
PendingTicks(prog) == prog.timers + prog.ticks

\* C26: from Init on exactly one periodic tick is pending while the program
\* runs; a tick message starts exactly one status fetch and one new tick, and
\* no other message (key, refresh included, window size, status result or
\* error) starts a tick or cancels the pending one.
C26_OneTick ==
    /\ [](step = "running" => PendingTicks(out) = 1)
    /\ [][~TimerStep =>
            /\ out'.msg.kind \in {"key", "size", "status", "tick"}
            /\ out'.msg.kind = "tick"
               => /\ out'.cmd = "fetch+tick"
                  /\ out'.ticks = out.ticks - 1
                  /\ out'.timers = out.timers + 1
                  /\ out'.fetches = out.fetches + 1
            /\ out'.msg.kind # "tick"
               => /\ out'.cmd \in {"nil", "quit", "fetch"}
                  /\ out'.ticks = out.ticks
                  /\ out'.timers = out.timers
            /\ out'.msg.kind = "status" => out'.fetches = out.fetches - 1
            /\ out'.msg.kind = "size" => out'.fetches = out.fetches]_vars

\* a tick message has been handled after a status error, while a fetch ran
C26_Witness ==
    /\ step = "running"
    /\ out.msg = TickMsg
    /\ out.cmd = "fetch+tick"
    /\ out.timers = 1
    /\ out.ticks = 0
    /\ out.fetches = MaxFetches
    /\ out.m.err
    /\ out.m.showHelp


\* every entry of the history h is in the persisted history of the store
StillPersisted(h, st) ==
    \A i \in 1..Len(h) : \E j \in 1..Len(Persisted(st)) : Persisted(st)[j] = h[i]

\* C27: when two processes run Record concurrently on a valid history of
\* fewer than 499 entries, every snapshot persisted before both calls began
\* is still persisted after both return success: a race loses at most the
\* snapshots being recorded, never earlier history. Stated for the disk
\* store, whose history before the first call is the one initial file, and
\* for the two calls being the only ones made.
C27_EarlierHistoryKept ==
    \A p, q \in Procs :
        (BothRecorded(p, q) /\ store[p] = "disk" /\ calls = 2)
        => \A f \in InitialDiskFiles : StillPersisted(LoadHistory(f).snapshots, "disk")

\* C28: the --type filter applied before the de-duplicator, as the command
\* does, prints the same events with the same timestamps and counts as
\* de-duplicating all classified events and keeping those of the category.
C28_FilterCommutes ==
    step = "done"
    => out = TypeFiltered(DeduplicateEvents(inp.events, DedupWindow), inp.typeFilter)

\* the timestamps of s do not decrease
NonDecreasing(s) == \A i \in 1..(Len(s) - 1) : s[i].Timestamp <= s[i + 1].Timestamp

\* C29: for an input with non-decreasing timestamps the output is maximally
\* merged: of two adjacent output events either the categories differ or the
\* first input of the later group is more than the window after the last
\* input of the earlier group.
C29_MaximallyMerged ==
    (step = "done" /\ NonDecreasing(DedupInput))
    => /\ SumCounts(out, Len(out)) = Len(DedupInput)
       /\ \A j \in 1..(Len(out) - 1) :
             LET first == SumCounts(out, j) + 1
             IN \/ out[j].Type # out[j + 1].Type
                \/ DedupInput[first].Timestamp - DedupInput[first - 1].Timestamp
                      > DedupWindow

\* a group of two events and a later group of the same category have come
\* out, the later one starting just over the window after the earlier ended
C29_Witness ==
    /\ step = "done"
    /\ NonDecreasing(DedupInput)
    /\ Len(DedupInput) = 3
    /\ Len(out) = 2
    /\ out[1].Count = 2
    /\ out[1].Type = out[2].Type
    /\ DedupInput[2].Timestamp - DedupInput[1].Timestamp = 10
    /\ DedupInput[3].Timestamp - DedupInput[2].Timestamp = DedupWindow + 10

\* C30: for an input with non-decreasing timestamps a second pass of the
\* de-duplicator with the same window over its own output merges nothing:
\* it returns as many events, with the same categories and timestamps, in
\* the same order.
C30_Idempotent ==
    [][(step = "done" /\ step' = "again" /\ NonDecreasing(DedupInput))
         => /\ Len(out') = Len(out)
            /\ \A j \in 1..Len(out) :
                  /\ out'[j].Type = out[j].Type
                  /\ out'[j].Timestamp = out[j].Timestamp
                  /\ out'[j].Detail = out[j].Detail]_vars

\* the second pass has returned two events of one category from an input of
\* three, of which the first pass had merged two
C30_Witness ==
    /\ step = "again"
    /\ NonDecreasing(DedupInput)
    /\ Len(DedupInput) = 3
    /\ Len(out) = 2
    /\ out[1].Type = out[2].Type
    /\ out[1].Timestamp = DedupInput[1].Timestamp
    /\ out[2].Timestamp = DedupInput[3].Timestamp
    /\ out[2].Timestamp - out[1].Timestamp <= 2 * DedupWindow

====
